---- MODULE Spec2Model ----
(***************************************************************************)
(* Intel 8080 interpreter of the Space Invaders emulator: the CPU of       *)
(* src/src/cpu.rs, the flags of src/src/conditions.rs and the two buses    *)
(* (src/src/memory/basic_memory.rs, src/src/space_invaders_memory.rs),     *)
(* and the frame driver and key handling of src/src/application.rs.        *)
(*                                                                         *)
(* Bytes are the integers 0..255 and words 0..65535.  A byte array whose   *)
(* cells start at zero ([0; 65_536], [0; 256]) is the function from its    *)
(* non-zero cells to their values: equal arrays are equal functions.       *)
(* Option<T> is a sequence: << >> is None and <<x>> is Some(x).            *)
(***************************************************************************)
EXTENDS Integers, Sequences, FiniteSets, TLC

VARIABLES
  cpu,              \* the Cpu object (its fields, and its bus in cpu.memory)
  overflow_checks,  \* the build: TRUE when integer overflow panics (debug), FALSE when it wraps (release)
  dispatched,       \* number of instructions the CPU has dispatched so far
  latched,          \* number of receive_interrupt calls so far
  vectors,          \* the opcodes the interrupting caller passes to receive_interrupt
  last,             \* history: the last call made on the Cpu, and the Cpu before it
  bus,              \* a SpaceInvadersMemory exercised on its own
  ram16k,           \* history: the 16 KiB of cells the bus is meant to fold onto
  seen,             \* history: the last bus call and what it returned
  app               \* the App: its shared cells, the locals of its emulator thread, where both threads are

vars == <<cpu, overflow_checks, dispatched, latched, vectors, last, bus, ram16k, seen, app>>

Byte == 0 .. 255

\* ------------------------------------------------------------ u8 / u16

RECURSIVE Bitwise(_, _, _, _)
\* The n low bits of x and y combined bit by bit by the truth table f.
Bitwise(f, x, y, n) ==
  IF n = 0 THEN 0
  ELSE f[x % 2][y % 2] + (2 * Bitwise(f, x \div 2, y \div 2, n - 1))

BitAnd(x, y) == Bitwise([i \in {0, 1} |-> [j \in {0, 1} |-> i * j]], x, y, 16)
BitOr(x, y)  == Bitwise([i \in {0, 1} |-> [j \in {0, 1} |-> IF i + j > 0 THEN 1 ELSE 0]], x, y, 16)
BitXor(x, y) == Bitwise([i \in {0, 1} |-> [j \in {0, 1} |-> (i + j) % 2]], x, y, 16)

\* !x on a u8.
Not8(x) == 255 - x

\* x as u8, x as u16: the truncating casts.
AsU8(x)  == x % 256
AsU16(x) == x % 65536

\* u8::wrapping_neg.
wrapping_neg(x) == (256 - x) % 256

RECURSIVE count_ones(_)
\* u8::count_ones.
count_ones(x) == IF x = 0 THEN 0 ELSE (x % 2) + count_ones(x \div 2)

\* u8::rotate_left(1) and u8::rotate_right(1).
rotate_left(x)  == ((2 * x) % 256) + (x \div 128)
rotate_right(x) == (x \div 2) + (128 * (x % 2))

concat_u8(high, low) == BitOr(high * 256, low)

split_u16(val) == <<AsU8(val \div 256), AsU8(BitAnd(val, \hFF))>>

check_half_carry_add(v1, v2) ==
  LET v1_masked == BitAnd(v1, \h0F)
      v2_masked == BitAnd(v2, \h0F)
      result    == BitAnd(AsU8(v1_masked + v2_masked), \h10)
  IN  result = \h10

check_half_carry_sub(v1, v2) ==
  LET v1_masked == BitAnd(v1, \h0F)
      v2_masked == BitAnd(v2, \h0F)
      result    == BitAnd(AsU8(v1_masked - v2_masked + 256), \h10)
  IN  result = \h10

\* ------------------------------------------------------------ byte arrays

\* array[i] of an array held as the function of its non-zero cells.
Cell(cells, i) == IF i \in DOMAIN cells THEN cells[i] ELSE 0

\* array[i] = v.
SetCell(cells, i, v) ==
  IF v = 0
  THEN [x \in DOMAIN cells \ {i} |-> cells[x]]
  ELSE [x \in DOMAIN cells \cup {i} |-> IF x = i THEN v ELSE cells[x]]

\* [0; N]
ZeroCells == [x \in {} |-> 0]

\* ------------------------------------------------------------ the buses

BasicMemory_new == [kind |-> "basic", memory |-> ZeroCells]

BasicMemory_read(m, addr) == Cell(m.memory, addr)

BasicMemory_write(m, addr, data) == [m EXCEPT !.memory = SetCell(m.memory, addr, data)]

ROM_SIZE == 8192

\* rom: the non-zero bytes of the [u8; 8_192] image.
SpaceInvadersMemory_new(rom) ==
  [kind |-> "arcade", memory |-> [addr \in DOMAIN rom \cap (0 .. ROM_SIZE - 1) |-> rom[addr]]]

SpaceInvadersMemory_read(m, addr) ==
  CASE addr \in \h0000 .. \h3FFF -> Cell(m.memory, addr)
    [] addr \in \h4000 .. \h5FFF -> Cell(m.memory, addr - \h2000)
    [] addr \in \h6000 .. \h7FFF -> Cell(m.memory, addr - \h4000)
    [] addr \in \h8000 .. \h9FFF -> Cell(m.memory, addr - \h6000)
    [] addr \in \hA000 .. \hBFFF -> Cell(m.memory, addr - \h8000)
    [] addr \in \hC000 .. \hDFFF -> Cell(m.memory, addr - \hA000)
    [] addr \in \hE000 .. \hFFFF -> Cell(m.memory, addr - \hC000)

\* write with the band 0x4000..=0x5FFF stored at addr - 0x4000 in place of
\* its return.
SpaceInvadersMemory_write_mirrored(m, addr, data) ==
  IF addr \in \h4000 .. \h5FFF THEN [m EXCEPT !.memory = SetCell(m.memory, addr - \h4000, data)]
  ELSE IF addr \in \h2000 .. \h3FFF THEN [m EXCEPT !.memory = SetCell(m.memory, addr, data)]
  ELSE m

SpaceInvadersMemory_write(m, addr, data) ==
  CASE addr \in \h0000 .. \h1FFF -> m
    [] addr \in \h2000 .. \h3FFF -> [m EXCEPT !.memory = SetCell(m.memory, addr, data)]
    [] addr \in \h4000 .. \h5FFF -> m
    [] addr \in \h6000 .. \h7FFF -> [m EXCEPT !.memory = SetCell(m.memory, addr - \h4000, data)]
    [] addr \in \h8000 .. \h9FFF -> m
    [] addr \in \hA000 .. \hBFFF -> [m EXCEPT !.memory = SetCell(m.memory, addr - \h8000, data)]
    [] addr \in \hC000 .. \hDFFF -> m
    [] addr \in \hE000 .. \hFFFF -> [m EXCEPT !.memory = SetCell(m.memory, addr - \hC000, data)]

\* Box<dyn Memory>: the call goes to the implementation behind the box.
read(m, addr) ==
  IF m.kind = "basic" THEN BasicMemory_read(m, addr) ELSE SpaceInvadersMemory_read(m, addr)

write(m, addr, data) ==
  IF m.kind = "basic" THEN BasicMemory_write(m, addr, data)
  ELSE SpaceInvadersMemory_write(m, addr, data)

\* ------------------------------------------------------------ conditions.rs

Conditions_new ==
  [carry |-> FALSE, aux |-> FALSE, sign |-> FALSE, zero |-> FALSE, parity |-> FALSE]

Conditions_set(f, register, value) ==
  CASE register = "Carry"     -> [f EXCEPT !.carry = value]
    [] register = "Auxillary" -> [f EXCEPT !.aux = value]
    [] register = "Sign"      -> [f EXCEPT !.sign = value]
    [] register = "Zero"      -> [f EXCEPT !.zero = value]
    [] register = "Parity"    -> [f EXCEPT !.parity = value]

Conditions_get(f, register) ==
  CASE register = "Carry"     -> f.carry
    [] register = "Auxillary" -> f.aux
    [] register = "Sign"      -> f.sign
    [] register = "Zero"      -> f.zero
    [] register = "Parity"    -> f.parity

as_bits(f) ==
  LET b0 == 2
      b1 == IF f.carry  THEN BitOr(b0, 1)   ELSE b0
      b2 == IF f.parity THEN BitOr(b1, 4)   ELSE b1
      b3 == IF f.aux    THEN BitOr(b2, 16)  ELSE b2
      b4 == IF f.zero   THEN BitOr(b3, 64)  ELSE b3
      b5 == IF f.sign   THEN BitOr(b4, 128) ELSE b4
  IN  b5

\* restore_from_bits with aux taken from 0b00100000.
restore_from_bits_bit5(f, bits) ==
  [carry  |-> BitAnd(bits, 1) = 1,
   parity |-> BitAnd(bits, 4) = 4,
   aux    |-> BitAnd(bits, 32) = 32,
   zero   |-> BitAnd(bits, 64) = 64,
   sign   |-> BitAnd(bits, 128) = 128]

restore_from_bits(f, bits) ==
  [carry  |-> BitAnd(bits, 1) = 1,
   parity |-> BitAnd(bits, 4) = 4,
   aux    |-> BitAnd(bits, 16) = 16,
   zero   |-> BitAnd(bits, 64) = 64,
   sign   |-> BitAnd(bits, 128) = 128]

\* ------------------------------------------------------------ cpu.rs: the Cpu

None == << >>
Some(x) == <<x>>

\* Cpu::new.  panicked is not a field of the struct: it is TRUE once a call on
\* the Cpu has panicked, after which the other fields keep what they held at
\* the panic and no further call is made (the owner unwinds).
Cpu_new(memory) ==
  [a |-> 0, b |-> 0, c |-> 0, d |-> 0, e |-> 0, h |-> 0, l |-> 0,
   pc |-> 0, sp |-> \h2400,
   conditions |-> Conditions_new,
   interrupt_enabled |-> FALSE,
   memory |-> memory,
   wait_cycles |-> 0,
   interrupt_opcode |-> None,
   devices |-> ZeroCells,
   output |-> None,
   halted |-> FALSE,
   panicked |-> FALSE]

\* One statement of a method, run on s: nothing once the method has panicked;
\* a panic when the statement's arithmetic overflows in a build that checks
\* overflow; otherwise F(s), the statement computed with wrapping arithmetic
\* (what the unchecked build does).
Stmt(s, overflows, F(_)) ==
  IF s.panicked THEN s
  ELSE IF overflow_checks /\ overflows THEN [s EXCEPT !.panicked = TRUE]
  ELSE F(s)

\* What a method hands back: the Cpu after it, and its return value.
Ret(s, val) == [cpu |-> s, val |-> val]

flag(s, register, value) ==
  [s EXCEPT !.conditions = Conditions_set(s.conditions, register, value)]

enable_interrupts(s) == [s EXCEPT !.interrupt_enabled = TRUE]

disable_interrupts(s) == [s EXCEPT !.interrupt_enabled = FALSE]

\* let v = self.method(); rest(v): the rest runs on the Cpu the method left,
\* unless the method panicked.
Bind(r, F(_, _)) == IF r.cpu.panicked THEN r.cpu ELSE F(r.cpu, r.val)

fetch_byte(s) ==
  Ret(Stmt(s, s.pc + 1 > \hFFFF, LAMBDA t : [t EXCEPT !.pc = AsU16(t.pc + 1)]),
      read(s.memory, s.pc))

fetch_two_bytes(s) ==
  Ret(Stmt(s, s.pc + 2 > \hFFFF, LAMBDA t : [t EXCEPT !.pc = AsU16(t.pc + 2)]),
      concat_u8(read(s.memory, AsU16(s.pc + 1)), read(s.memory, s.pc)))

get_one_byte_register(s, register) ==
  CASE register = "B" -> s.b
    [] register = "C" -> s.c
    [] register = "D" -> s.d
    [] register = "E" -> s.e
    [] register = "H" -> s.h
    [] register = "L" -> s.l
    [] register = "A" -> s.a

set_one_byte_register(s, value, register) ==
  CASE register = "B" -> [s EXCEPT !.b = value]
    [] register = "C" -> [s EXCEPT !.c = value]
    [] register = "D" -> [s EXCEPT !.d = value]
    [] register = "E" -> [s EXCEPT !.e = value]
    [] register = "H" -> [s EXCEPT !.h = value]
    [] register = "L" -> [s EXCEPT !.l = value]
    [] register = "A" -> [s EXCEPT !.a = value]

get_two_byte_register(s, register) ==
  CASE register = "BC" -> concat_u8(s.b, s.c)
    [] register = "DE" -> concat_u8(s.d, s.e)
    [] register = "HL" -> concat_u8(s.h, s.l)
    [] register = "SP" -> s.sp

set_two_byte_register(s, value, register) ==
  LET msb == split_u16(value)[1]
      lsb == split_u16(value)[2]
  IN  CASE register = "BC" -> [s EXCEPT !.c = lsb, !.b = msb]
        [] register = "DE" -> [s EXCEPT !.e = lsb, !.d = msb]
        [] register = "HL" -> [s EXCEPT !.l = lsb, !.h = msb]
        [] register = "SP" -> [s EXCEPT !.sp = value]

add_sub_8bit(s, v1, v2) ==
  LET result == v1 + v2
      lsb    == AsU8(result)
      s1 == flag(s, "Zero", lsb = 0)
      s2 == flag(s1, "Sign", lsb >= \h80)
      s3 == flag(s2, "Parity", count_ones(lsb) % 2 = 0)
      s4 == flag(s3, "Auxillary", check_half_carry_add(v1, v2))
  IN  Ret(s4, result)

\* ------------------------------------------------------------ cpu.rs: the instructions
\* Each returns Ret(the Cpu after it, the wait cycles it returns).

\* self.memory.write(addr, data)
store(s, addr, data) == [s EXCEPT !.memory = write(s.memory, addr, data)]

\* if self.conditions.get(Carry) { 1 } else { 0 }
carry_bit(s) == IF Conditions_get(s.conditions, "Carry") THEN 1 ELSE 0

\* The three flags every ALU instruction derives from its result byte.
zsp(s, lsb) ==
  flag(flag(flag(s, "Zero", lsb = 0), "Sign", lsb >= \h80),
       "Parity", count_ones(lsb) % 2 = 0)

nop(s) == Ret(s, 3)

lxi(s, register) ==
  Ret(Bind(fetch_two_bytes(s),
           LAMBDA t, immediate : set_two_byte_register(t, immediate, register)), 9)

stax(s, register) ==
  Ret(store(s, get_two_byte_register(s, register), s.a), 6)

sta(s) ==
  Ret(Bind(fetch_two_bytes(s), LAMBDA t, immediate : store(t, immediate, t.a)), 12)

\* inx charged one cycle too many (a wrong constant in the return).
inx_slow(s, register) ==
  LET value == get_two_byte_register(s, register)
  IN  Ret(set_two_byte_register(s, AsU16(value + 1), register), 5)

inx(s, register) ==
  LET value == get_two_byte_register(s, register)
  IN  Ret(set_two_byte_register(s, AsU16(value + 1), register), 4)

\* inr with the carry of add: result > u8::MAX stored in Carry.
inr_sets_carry(s, register) ==
  LET value == get_one_byte_register(s, register)
  IN  Ret(Bind(add_sub_8bit(s, value, 1),
               LAMBDA t, result :
                 set_one_byte_register(flag(t, "Carry", result > 255), AsU8(result), register)), 4)

inr(s, register) ==
  LET value == get_one_byte_register(s, register)
  IN  Ret(Bind(add_sub_8bit(s, value, 1),
               LAMBDA t, result : set_one_byte_register(t, AsU8(result), register)), 4)

inrm(s) ==
  LET addr == get_two_byte_register(s, "HL")
      value == read(s.memory, addr)
  IN  Ret(Bind(add_sub_8bit(s, value, 1),
               LAMBDA t, result : store(t, addr, AsU8(result))), 9)

dcr(s, register) ==
  LET value == get_one_byte_register(s, register)
  IN  Ret(Bind(add_sub_8bit(s, value, wrapping_neg(1)),
               LAMBDA t, result : set_one_byte_register(t, AsU8(result), register)), 4)

dcrm(s) ==
  LET addr == get_two_byte_register(s, "HL")
      value == read(s.memory, addr)
  IN  Ret(Bind(add_sub_8bit(s, value, wrapping_neg(1)),
               LAMBDA t, result : store(t, addr, AsU8(result))), 9)

mvi(s, register) ==
  Ret(Bind(fetch_byte(s), LAMBDA t, value : set_one_byte_register(t, value, register)), 6)

mvim(s) ==
  Ret(Bind(fetch_byte(s),
           LAMBDA t, value : store(t, get_two_byte_register(t, "HL"), value)), 9)

rlc(s) ==
  Ret(flag([s EXCEPT !.a = rotate_left(s.a)], "Carry", BitAnd(rotate_left(s.a), 1) = 1), 3)

rrc(s) ==
  Ret([flag(s, "Carry", BitAnd(s.a, 1) = 1) EXCEPT !.a = rotate_right(s.a)], 3)

ral(s) ==
  LET carry == BitAnd(s.a, 1)
      a1 == AsU8(s.a * 2)
  IN  Ret(flag([s EXCEPT !.a = BitOr(a1, carry_bit(s))], "Carry", carry = 1), 3)

rar(s) ==
  LET carry == BitAnd(s.a, 1)
      a1 == s.a \div 2
  IN  Ret(flag([s EXCEPT !.a = BitOr(a1, AsU8(carry_bit(s) * 128))], "Carry", carry = 1), 3)

\* dad once value and hl are read.
dad_sum(s, result) ==
  set_two_byte_register(flag(s, "Carry", result > 65535), AsU16(result), "HL")

dad(s, register) ==
  LET value == get_two_byte_register(s, register)
      hl == get_two_byte_register(s, "HL")
  IN  Ret(dad_sum(s, hl + value), 9)

ldax(s, register) ==
  Ret([s EXCEPT !.a = read(s.memory, get_two_byte_register(s, register))], 6)

lda(s) ==
  Ret(Bind(fetch_two_bytes(s),
           LAMBDA t, immediate : [t EXCEPT !.a = read(t.memory, immediate)]), 12)

dcx(s, register) ==
  LET value == get_two_byte_register(s, register)
  IN  Ret(set_two_byte_register(s, AsU16(value + 65535), register), 4)

shld(s) ==
  Ret(Bind(fetch_two_bytes(s),
           LAMBDA t, immediate :
             Stmt(store(t, immediate, t.l), immediate + 1 > \hFFFF,
                  LAMBDA u : store(u, AsU16(immediate + 1), u.h))), 15)

lhld(s) ==
  Ret(Bind(fetch_two_bytes(s),
           LAMBDA t, immediate :
             Stmt([t EXCEPT !.l = read(t.memory, immediate)], immediate + 1 > \hFFFF,
                  LAMBDA u : [u EXCEPT !.h = read(u.memory, AsU16(immediate + 1))])), 15)

cma(s) == Ret([s EXCEPT !.a = Not8(s.a)], 3)

stc(s) == Ret(flag(s, "Carry", TRUE), 3)

cmc(s) == Ret(flag(s, "Carry", ~Conditions_get(s.conditions, "Carry")), 3)

mov(s, source, destination) ==
  LET value == get_one_byte_register(s, source)
  IN  Ret(set_one_byte_register(s, value, destination), 4)

movm_load(s, register) ==
  LET addr == get_two_byte_register(s, "HL")
      value == read(s.memory, addr)
  IN  Ret(set_one_byte_register(s, value, register), 6)

movm(s, register) ==
  LET addr == get_two_byte_register(s, "HL")
      value == get_one_byte_register(s, register)
  IN  Ret(store(s, addr, value), 6)

\* The shared body of add/addm, adc/adcm: A <- A + operand, operand a u8 sum
\* that overflows when `overflows`.
add_to_a(s, operand, overflows, cycles) ==
  Ret(Stmt(s, overflows,
           LAMBDA t : Bind(add_sub_8bit(t, t.a, AsU8(operand)),
                           LAMBDA u, result :
                             [flag(u, "Carry", result > 255) EXCEPT !.a = AsU8(result)])),
      cycles)

\* add without its self.conditions.set(Carry, ..).
add_keeps_carry(s, register) ==
  Ret(Bind(add_sub_8bit(s, s.a, get_one_byte_register(s, register)),
           LAMBDA u, result : [u EXCEPT !.a = AsU8(result)]), 3)

add(s, register) ==
  add_to_a(s, get_one_byte_register(s, register), FALSE, 3)

addm(s) ==
  add_to_a(s, read(s.memory, get_two_byte_register(s, "HL")), FALSE, 6)

adc(s, register) ==
  LET value == get_one_byte_register(s, register)
      carry == carry_bit(s)
  IN  add_to_a(s, value + carry, value + carry > 255, 3)

adcm(s) ==
  LET value == read(s.memory, get_two_byte_register(s, "HL"))
      carry == carry_bit(s)
  IN  add_to_a(s, value + carry, value + carry > 255, 6)

\* The shared body of sub/subm, sbb/sbbm and cmp/cmpm: flags of A + operand,
\* Carry <- A < value, and A <- the low byte unless the result is discarded.
sub_from_a(s, value, operand, overflows, keep, cycles) ==
  Ret(Stmt(s, overflows,
           LAMBDA t : Bind(add_sub_8bit(t, t.a, AsU8(operand)),
                           LAMBDA u, result :
                             [flag(u, "Carry", s.a < value)
                                EXCEPT !.a = IF keep THEN AsU8(result) ELSE u.a])),
      cycles)

\* sub with the carry of add: result > u8::MAX in place of self.a < value.
sub_carry_of_sum(s, register) ==
  Ret(Bind(add_sub_8bit(s, s.a, wrapping_neg(get_one_byte_register(s, register))),
           LAMBDA u, result : [flag(u, "Carry", result > 255) EXCEPT !.a = AsU8(result)]), 3)

sub(s, register) ==
  LET value == get_one_byte_register(s, register)
  IN  sub_from_a(s, value, wrapping_neg(value), FALSE, TRUE, 3)

subm(s) ==
  LET value == read(s.memory, get_two_byte_register(s, "HL"))
  IN  sub_from_a(s, value, wrapping_neg(value), FALSE, TRUE, 6)

sbb(s, register) ==
  LET value == get_one_byte_register(s, register)
      operand == wrapping_neg(value) + wrapping_neg(carry_bit(s))
  IN  sub_from_a(s, value, operand, operand > 255, TRUE, 3)

sbbm(s) ==
  LET value == read(s.memory, get_two_byte_register(s, "HL"))
      operand == wrapping_neg(value) + wrapping_neg(carry_bit(s))
  IN  sub_from_a(s, value, operand, operand > 255, TRUE, 6)

cmp(s, register) ==
  LET value == get_one_byte_register(s, register)
  IN  sub_from_a(s, value, wrapping_neg(value), FALSE, FALSE, 3)

cmpm(s) ==
  LET value == read(s.memory, get_two_byte_register(s, "HL"))
  IN  sub_from_a(s, value, wrapping_neg(value), FALSE, FALSE, 6)

\* The shared body of ana/anam/ani, xra/xram/xri, ora/oram/ori: A <- result,
\* Zero, Sign, Parity from it, Carry <- false.  Auxillary is not assigned.
logic_to_a(s, result, cycles) ==
  Ret(flag(zsp([s EXCEPT !.a = result], result), "Carry", FALSE), cycles)

ana(s, register) == logic_to_a(s, BitAnd(s.a, get_one_byte_register(s, register)), 3)

anam(s) == logic_to_a(s, BitAnd(s.a, read(s.memory, get_two_byte_register(s, "HL"))), 6)

xra(s, register) == logic_to_a(s, BitXor(s.a, get_one_byte_register(s, register)), 3)

xram(s) == logic_to_a(s, BitXor(s.a, read(s.memory, get_two_byte_register(s, "HL"))), 6)

ora(s, register) == logic_to_a(s, BitOr(s.a, get_one_byte_register(s, register)), 3)

oram(s) == logic_to_a(s, BitOr(s.a, read(s.memory, get_two_byte_register(s, "HL"))), 6)

\* The match of pop: the pair takes lsb and msb.
\* The match of pop with the two bytes read exchanged.
pop_into_exchanged(s, register, lsb, msb) ==
  CASE register = "BC"  -> [s EXCEPT !.c = msb, !.b = lsb]
    [] register = "DE"  -> [s EXCEPT !.e = msb, !.d = lsb]
    [] register = "HL"  -> [s EXCEPT !.l = msb, !.h = lsb]
    [] register = "PSW" ->
         [s EXCEPT !.conditions = restore_from_bits(s.conditions, msb), !.a = lsb]
    [] OTHER -> [s EXCEPT !.panicked = TRUE]

pop_into(s, register, lsb, msb) ==
  CASE register = "BC"  -> [s EXCEPT !.c = lsb, !.b = msb]
    [] register = "DE"  -> [s EXCEPT !.e = lsb, !.d = msb]
    [] register = "HL"  -> [s EXCEPT !.l = lsb, !.h = msb]
    [] register = "PSW" ->
         [s EXCEPT !.conditions = restore_from_bits(s.conditions, lsb), !.a = msb]
    [] OTHER -> [s EXCEPT !.panicked = TRUE]

pop(s, register) ==
  Ret(Stmt(Stmt(s, s.sp + 1 > \hFFFF,
                LAMBDA t : pop_into(t, register, read(t.memory, t.sp),
                                    read(t.memory, AsU16(t.sp + 1)))),
           s.sp + 2 > \hFFFF, LAMBDA t : [t EXCEPT !.sp = AsU16(t.sp + 2)]), 9)

\* write(self.sp - 2, low); write(self.sp - 1, high)
push_pair(s, low, high) ==
  Stmt(Stmt(s, s.sp - 2 < 0, LAMBDA t : store(t, AsU16(t.sp - 2 + 65536), low)),
       s.sp - 1 < 0, LAMBDA t : store(t, AsU16(t.sp - 1 + 65536), high))

push(s, register) ==
  Ret(Stmt(CASE register = "BC"  -> push_pair(s, s.c, s.b)
             [] register = "DE"  -> push_pair(s, s.e, s.d)
             [] register = "HL"  -> push_pair(s, s.l, s.h)
             [] register = "PSW" -> push_pair(s, as_bits(s.conditions), s.a)
             [] OTHER -> [s EXCEPT !.panicked = TRUE],
           s.sp - 2 < 0, LAMBDA t : [t EXCEPT !.sp = AsU16(t.sp - 2 + 65536)]), 10)

\* The return address pushed with its bytes exchanged: low byte at sp - 1.
push_pc_swapped(s) ==
  Stmt(Stmt(Stmt(s, s.sp - 1 < 0,
                 LAMBDA t : store(t, AsU16(t.sp - 1 + 65536), AsU8(BitAnd(t.pc, \hFF)))),
            s.sp - 2 < 0,
            LAMBDA t : store(t, AsU16(t.sp - 2 + 65536), AsU8(t.pc \div 256))),
       s.sp - 2 < 0, LAMBDA t : [t EXCEPT !.sp = AsU16(t.sp - 2 + 65536)])

\* write(self.sp - 1, pc >> 8); write(self.sp - 2, pc & 0xFF); self.sp = self.sp - 2
push_pc(s) ==
  Stmt(Stmt(Stmt(s, s.sp - 1 < 0,
                 LAMBDA t : store(t, AsU16(t.sp - 1 + 65536), AsU8(t.pc \div 256))),
            s.sp - 2 < 0,
            LAMBDA t : store(t, AsU16(t.sp - 2 + 65536), AsU8(BitAnd(t.pc, \hFF)))),
       s.sp - 2 < 0, LAMBDA t : [t EXCEPT !.sp = AsU16(t.sp - 2 + 65536)])

rst(s, opcode) ==
  LET destination == BitAnd(opcode, 56)
  IN  Ret(Stmt(push_pc(s), FALSE, LAMBDA t : [t EXCEPT !.pc = destination]), 10)

call(s) ==
  Ret(Bind(fetch_two_bytes(s),
           LAMBDA t, immediate :
             Stmt(push_pc(t), FALSE, LAMBDA u : [u EXCEPT !.pc = immediate])), 16)

call_conditional(s, condition, value) ==
  IF Conditions_get(s.conditions, condition) = value
  THEN Ret(Bind(fetch_two_bytes(s),
                LAMBDA t, immediate :
                  Stmt(push_pc(t), FALSE, LAMBDA u : [u EXCEPT !.pc = immediate])), 16)
  ELSE Ret(Stmt(s, s.pc + 2 > \hFFFF, LAMBDA t : [t EXCEPT !.pc = AsU16(t.pc + 2)]), 10)

\* self.pc = concat_u8(read(self.sp + 1), read(self.sp)); self.sp = self.sp + 2
pop_pc(s) ==
  Stmt(Stmt(s, s.sp + 1 > \hFFFF,
            LAMBDA t : [t EXCEPT !.pc = concat_u8(read(t.memory, AsU16(t.sp + 1)),
                                                  read(t.memory, t.sp))]),
       s.sp + 2 > \hFFFF, LAMBDA t : [t EXCEPT !.sp = AsU16(t.sp + 2)])

ret(s) == Ret(pop_pc(s), 9)

ret_conditional(s, condition, value) ==
  IF Conditions_get(s.conditions, condition) = value
  THEN Ret(pop_pc(s), 10)
  ELSE Ret(s, 4)

jmp(s) ==
  Ret(Bind(fetch_two_bytes(s), LAMBDA t, immediate : [t EXCEPT !.pc = immediate]), 9)

\* jmp_conditional without the else arm's self.pc = self.pc + 2.
jmp_conditional_short(s, condition, value) ==
  IF Conditions_get(s.conditions, condition) = value
  THEN Ret(Bind(fetch_two_bytes(s), LAMBDA t, immediate : [t EXCEPT !.pc = immediate]), 9)
  ELSE Ret(s, 9)

jmp_conditional(s, condition, value) ==
  IF Conditions_get(s.conditions, condition) = value
  THEN Ret(Bind(fetch_two_bytes(s), LAMBDA t, immediate : [t EXCEPT !.pc = immediate]), 9)
  ELSE Ret(Stmt(s, s.pc + 2 > \hFFFF, LAMBDA t : [t EXCEPT !.pc = AsU16(t.pc + 2)]), 9)

\* xthl returning its 18 cycles instead of 18 - 1.
xthl_slow(s) ==
  LET lval == read(s.memory, s.sp)
      hval == read(s.memory, AsU16(s.sp + 1))
  IN  Ret(Stmt(s, s.sp + 1 > \hFFFF,
               LAMBDA t : [store(store(t, t.sp, t.l), AsU16(t.sp + 1), t.h)
                             EXCEPT !.l = lval, !.h = hval]), 18)

xthl(s) ==
  LET lval == read(s.memory, s.sp)
      hval == read(s.memory, AsU16(s.sp + 1))
  IN  Ret(Stmt(s, s.sp + 1 > \hFFFF,
               LAMBDA t : [store(store(t, t.sp, t.l), AsU16(t.sp + 1), t.h)
                             EXCEPT !.l = lval, !.h = hval]), 17)

pchl(s) == Ret([s EXCEPT !.pc = get_two_byte_register(s, "HL")], 4)

sphl(s) == Ret([s EXCEPT !.sp = get_two_byte_register(s, "HL")], 4)

xchg(s) ==
  LET hval == s.d
      lval == s.e
  IN  Ret([s EXCEPT !.d = s.h, !.e = s.l, !.h = hval, !.l = lval], 4)

device_in(s) ==
  Ret(Bind(fetch_byte(s), LAMBDA t, device : [t EXCEPT !.a = Cell(t.devices, device)]), 9)

device_out(s) ==
  Ret(Bind(fetch_byte(s), LAMBDA t, device : [t EXCEPT !.output = Some(<<device, t.a>>)]), 9)

ei(s) == Ret(enable_interrupts(s), 3)

di(s) == Ret(disable_interrupts(s), 3)

halt(s) == Ret([s EXCEPT !.halted = TRUE], 6)

\* The shared tail of adi, aci, sui, sbi and cpi: the flags of the u16 sum
\* `result`, Auxillary and Carry as given, A <- the low byte unless discarded.
immediate_to_a(s, result, aux, carry, keep) ==
  [flag(flag(zsp(s, AsU8(result)), "Auxillary", aux), "Carry", carry)
     EXCEPT !.a = IF keep THEN AsU8(result) ELSE s.a]

adi(s) ==
  Ret(Bind(fetch_byte(s),
           LAMBDA t, value :
             immediate_to_a(t, t.a + value, check_half_carry_add(t.a, value),
                            t.a + value > \hFF, TRUE)), 6)

aci(s) ==
  LET carry == carry_bit(s)
  IN  Ret(Bind(fetch_byte(s),
               LAMBDA t, value :
                 Stmt(t, value + carry > 255,
                      LAMBDA u :
                        immediate_to_a(u, u.a + AsU8(value + carry),
                                       check_half_carry_add(u.a, value),
                                       u.a + AsU8(value + carry) > \hFF, TRUE))), 6)

sui(s) ==
  Ret(Bind(fetch_byte(s),
           LAMBDA t, value :
             immediate_to_a(t, t.a + wrapping_neg(value), check_half_carry_sub(t.a, value),
                            t.a < value, TRUE)), 6)

sbi(s) ==
  LET carry == carry_bit(s)
  IN  Ret(Bind(fetch_byte(s),
               LAMBDA t, value :
                 immediate_to_a(t, t.a + (wrapping_neg(value) + wrapping_neg(carry)),
                                check_half_carry_sub(t.a, value), t.a < value, TRUE)), 6)

ani(s) ==
  Ret(Bind(fetch_byte(s), LAMBDA t, value : logic_to_a(t, BitAnd(t.a, value), 6).cpu), 6)

xri(s) ==
  Ret(Bind(fetch_byte(s), LAMBDA t, value : logic_to_a(t, BitXor(t.a, value), 6).cpu), 6)

ori(s) ==
  Ret(Bind(fetch_byte(s), LAMBDA t, value : logic_to_a(t, BitOr(t.a, value), 6).cpu), 6)

cpi(s) ==
  Ret(Bind(fetch_byte(s),
           LAMBDA t, value :
             immediate_to_a(t, t.a + wrapping_neg(value), check_half_carry_sub(t.a, value),
                            t.a < value, FALSE)), 6)

\* The first if of daa.
daa_low(s) ==
  IF BitAnd(s.a, \h0F) > 9 \/ Conditions_get(s.conditions, "Auxillary")
  THEN Stmt(flag(s, "Auxillary", check_half_carry_add(s.a, 6)), s.a + 6 > 255,
            LAMBDA t : [t EXCEPT !.a = AsU8(t.a + 6)])
  ELSE s

\* The second if of daa.
daa_high(s) ==
  LET upper_nibble == (BitAnd(s.a, \hF0) \div 16) + 6
  IN  IF (BitAnd(s.a, \hF0) \div 16) > 9 \/ Conditions_get(s.conditions, "Carry")
      THEN [flag(s, "Carry", upper_nibble > \h0F)
              EXCEPT !.a = BitOr(AsU8(upper_nibble * 16), BitAnd(s.a, \h0F))]
      ELSE s

daa(s) ==
  Ret(Stmt(Stmt(daa_low(s), FALSE, daa_high), FALSE, LAMBDA t : zsp(t, t.a)), 3)

\* ------------------------------------------------------------ cpu.rs: dispatch and tick

dispatch(s, instruction) ==
  CASE instruction \in {\h00, \h08, \h10, \h18, \h20, \h28, \h30, \h38} -> nop(s)
    [] instruction = \h01 -> lxi(s, "BC")
    [] instruction = \h02 -> stax(s, "BC")
    [] instruction = \h03 -> inx(s, "BC")
    [] instruction = \h04 -> inr(s, "B")
    [] instruction = \h05 -> dcr(s, "B")
    [] instruction = \h06 -> mvi(s, "B")
    [] instruction = \h07 -> rlc(s)
    [] instruction = \h09 -> dad(s, "BC")
    [] instruction = \h0A -> ldax(s, "BC")
    [] instruction = \h0B -> dcx(s, "BC")
    [] instruction = \h0C -> inr(s, "C")
    [] instruction = \h0D -> dcr(s, "C")
    [] instruction = \h0E -> mvi(s, "C")
    [] instruction = \h0F -> rrc(s)
    [] instruction = \h11 -> lxi(s, "DE")
    [] instruction = \h12 -> stax(s, "DE")
    [] instruction = \h13 -> inx(s, "DE")
    [] instruction = \h14 -> inr(s, "D")
    [] instruction = \h15 -> dcr(s, "D")
    [] instruction = \h16 -> mvi(s, "D")
    [] instruction = \h17 -> ral(s)
    [] instruction = \h19 -> dad(s, "DE")
    [] instruction = \h1A -> ldax(s, "DE")
    [] instruction = \h1B -> dcx(s, "DE")
    [] instruction = \h1C -> inr(s, "E")
    [] instruction = \h1D -> dcr(s, "E")
    [] instruction = \h1E -> mvi(s, "E")
    [] instruction = \h1F -> rar(s)
    [] instruction = \h21 -> lxi(s, "HL")
    [] instruction = \h22 -> shld(s)
    [] instruction = \h23 -> inx(s, "HL")
    [] instruction = \h24 -> inr(s, "H")
    [] instruction = \h25 -> dcr(s, "H")
    [] instruction = \h26 -> mvi(s, "H")
    [] instruction = \h27 -> daa(s)
    [] instruction = \h29 -> dad(s, "HL")
    [] instruction = \h2A -> lhld(s)
    [] instruction = \h2B -> dcx(s, "HL")
    [] instruction = \h2C -> inr(s, "L")
    [] instruction = \h2D -> dcr(s, "L")
    [] instruction = \h2E -> mvi(s, "L")
    [] instruction = \h2F -> cma(s)
    [] instruction = \h31 -> lxi(s, "SP")
    [] instruction = \h32 -> sta(s)
    [] instruction = \h33 -> inx(s, "SP")
    [] instruction = \h34 -> inrm(s)
    [] instruction = \h35 -> dcrm(s)
    [] instruction = \h36 -> mvim(s)
    [] instruction = \h37 -> stc(s)
    [] instruction = \h39 -> dad(s, "SP")
    [] instruction = \h3A -> lda(s)
    [] instruction = \h3B -> dcx(s, "SP")
    [] instruction = \h3C -> inr(s, "A")
    [] instruction = \h3D -> dcr(s, "A")
    [] instruction = \h3E -> mvi(s, "A")
    [] instruction = \h3F -> cmc(s)
    [] instruction = \h40 -> mov(s, "B", "B")
    [] instruction = \h41 -> mov(s, "C", "B")
    [] instruction = \h42 -> mov(s, "D", "B")
    [] instruction = \h43 -> mov(s, "E", "B")
    [] instruction = \h44 -> mov(s, "H", "B")
    [] instruction = \h45 -> mov(s, "L", "B")
    [] instruction = \h46 -> movm_load(s, "B")
    [] instruction = \h47 -> mov(s, "A", "B")
    [] instruction = \h48 -> mov(s, "B", "C")
    [] instruction = \h49 -> mov(s, "C", "C")
    [] instruction = \h4A -> mov(s, "D", "C")
    [] instruction = \h4B -> mov(s, "E", "C")
    [] instruction = \h4C -> mov(s, "H", "C")
    [] instruction = \h4D -> mov(s, "L", "C")
    [] instruction = \h4E -> movm_load(s, "C")
    [] instruction = \h4F -> mov(s, "A", "C")
    [] instruction = \h50 -> mov(s, "B", "D")
    [] instruction = \h51 -> mov(s, "C", "D")
    [] instruction = \h52 -> mov(s, "D", "D")
    [] instruction = \h53 -> mov(s, "E", "D")
    [] instruction = \h54 -> mov(s, "H", "D")
    [] instruction = \h55 -> mov(s, "L", "D")
    [] instruction = \h56 -> movm_load(s, "D")
    [] instruction = \h57 -> mov(s, "A", "D")
    [] instruction = \h58 -> mov(s, "B", "E")
    [] instruction = \h59 -> mov(s, "C", "E")
    [] instruction = \h5A -> mov(s, "D", "E")
    [] instruction = \h5B -> mov(s, "E", "E")
    [] instruction = \h5C -> mov(s, "H", "E")
    [] instruction = \h5D -> mov(s, "L", "E")
    [] instruction = \h5E -> movm_load(s, "E")
    [] instruction = \h5F -> mov(s, "A", "E")
    [] instruction = \h60 -> mov(s, "B", "H")
    [] instruction = \h61 -> mov(s, "C", "H")
    [] instruction = \h62 -> mov(s, "D", "H")
    [] instruction = \h63 -> mov(s, "E", "H")
    [] instruction = \h64 -> mov(s, "H", "H")
    [] instruction = \h65 -> mov(s, "L", "H")
    [] instruction = \h66 -> movm_load(s, "H")
    [] instruction = \h67 -> mov(s, "A", "H")
    [] instruction = \h68 -> mov(s, "B", "L")
    [] instruction = \h69 -> mov(s, "C", "L")
    [] instruction = \h6A -> mov(s, "D", "L")
    [] instruction = \h6B -> mov(s, "E", "L")
    [] instruction = \h6C -> mov(s, "H", "L")
    [] instruction = \h6D -> mov(s, "L", "L")
    [] instruction = \h6E -> movm_load(s, "L")
    [] instruction = \h6F -> mov(s, "A", "L")
    [] instruction = \h70 -> movm(s, "B")
    [] instruction = \h71 -> movm(s, "C")
    [] instruction = \h72 -> movm(s, "D")
    [] instruction = \h73 -> movm(s, "E")
    [] instruction = \h74 -> movm(s, "H")
    [] instruction = \h75 -> movm(s, "L")
    [] instruction = \h76 -> halt(s)
    [] instruction = \h77 -> movm(s, "A")
    [] instruction = \h78 -> mov(s, "B", "A")
    [] instruction = \h79 -> mov(s, "C", "A")
    [] instruction = \h7A -> mov(s, "D", "A")
    [] instruction = \h7B -> mov(s, "E", "A")
    [] instruction = \h7C -> mov(s, "H", "A")
    [] instruction = \h7D -> mov(s, "L", "A")
    [] instruction = \h7E -> movm_load(s, "A")
    [] instruction = \h7F -> mov(s, "A", "A")
    [] instruction = \h80 -> add(s, "B")
    [] instruction = \h81 -> add(s, "C")
    [] instruction = \h82 -> add(s, "D")
    [] instruction = \h83 -> add(s, "E")
    [] instruction = \h84 -> add(s, "H")
    [] instruction = \h85 -> add(s, "L")
    [] instruction = \h86 -> addm(s)
    [] instruction = \h87 -> add(s, "A")
    [] instruction = \h88 -> adc(s, "B")
    [] instruction = \h89 -> adc(s, "C")
    [] instruction = \h8A -> adc(s, "D")
    [] instruction = \h8B -> adc(s, "E")
    [] instruction = \h8C -> adc(s, "H")
    [] instruction = \h8D -> adc(s, "L")
    [] instruction = \h8E -> adcm(s)
    [] instruction = \h8F -> adc(s, "A")
    [] instruction = \h90 -> sub(s, "B")
    [] instruction = \h91 -> sub(s, "C")
    [] instruction = \h92 -> sub(s, "D")
    [] instruction = \h93 -> sub(s, "E")
    [] instruction = \h94 -> sub(s, "H")
    [] instruction = \h95 -> sub(s, "L")
    [] instruction = \h96 -> subm(s)
    [] instruction = \h97 -> sub(s, "A")
    [] instruction = \h98 -> sbb(s, "B")
    [] instruction = \h99 -> sbb(s, "C")
    [] instruction = \h9A -> sbb(s, "D")
    [] instruction = \h9B -> sbb(s, "E")
    [] instruction = \h9C -> sbb(s, "H")
    [] instruction = \h9D -> sbb(s, "L")
    [] instruction = \h9E -> sbbm(s)
    [] instruction = \h9F -> sbb(s, "A")
    [] instruction = \hA0 -> ana(s, "B")
    [] instruction = \hA1 -> ana(s, "C")
    [] instruction = \hA2 -> ana(s, "D")
    [] instruction = \hA3 -> ana(s, "E")
    [] instruction = \hA4 -> ana(s, "H")
    [] instruction = \hA5 -> ana(s, "L")
    [] instruction = \hA6 -> anam(s)
    [] instruction = \hA7 -> ana(s, "A")
    [] instruction = \hA8 -> xra(s, "B")
    [] instruction = \hA9 -> xra(s, "C")
    [] instruction = \hAA -> xra(s, "D")
    [] instruction = \hAB -> xra(s, "E")
    [] instruction = \hAC -> xra(s, "H")
    [] instruction = \hAD -> xra(s, "L")
    [] instruction = \hAE -> xram(s)
    [] instruction = \hAF -> xra(s, "A")
    [] instruction = \hB0 -> ora(s, "B")
    [] instruction = \hB1 -> ora(s, "C")
    [] instruction = \hB2 -> ora(s, "D")
    [] instruction = \hB3 -> ora(s, "E")
    [] instruction = \hB4 -> ora(s, "H")
    [] instruction = \hB5 -> ora(s, "L")
    [] instruction = \hB6 -> oram(s)
    [] instruction = \hB7 -> ora(s, "A")
    [] instruction = \hB8 -> cmp(s, "B")
    [] instruction = \hB9 -> cmp(s, "C")
    [] instruction = \hBA -> cmp(s, "D")
    [] instruction = \hBB -> cmp(s, "E")
    [] instruction = \hBC -> cmp(s, "H")
    [] instruction = \hBD -> cmp(s, "L")
    [] instruction = \hBE -> cmpm(s)
    [] instruction = \hBF -> cmp(s, "A")
    [] instruction = \hC0 -> ret_conditional(s, "Zero", FALSE)
    [] instruction = \hC1 -> pop(s, "BC")
    [] instruction = \hC2 -> jmp_conditional(s, "Zero", FALSE)
    [] instruction \in {\hC3, \hCB} -> jmp(s)
    [] instruction = \hC4 -> call_conditional(s, "Zero", FALSE)
    [] instruction = \hC5 -> push(s, "BC")
    [] instruction = \hC6 -> adi(s)
    [] instruction \in {\hC7, \hCF, \hD7, \hDF, \hE7, \hEF, \hF7, \hFF} -> rst(s, instruction)
    [] instruction = \hC8 -> ret_conditional(s, "Zero", TRUE)
    [] instruction \in {\hC9, \hD9} -> ret(s)
    [] instruction = \hCA -> jmp_conditional(s, "Zero", TRUE)
    [] instruction = \hCC -> call_conditional(s, "Zero", TRUE)
    [] instruction \in {\hCD, \hDD, \hED, \hFD} -> call(s)
    [] instruction = \hCE -> aci(s)
    [] instruction = \hD0 -> ret_conditional(s, "Carry", FALSE)
    [] instruction = \hD1 -> pop(s, "DE")
    [] instruction = \hD2 -> jmp_conditional(s, "Carry", FALSE)
    [] instruction = \hD3 -> device_out(s)
    [] instruction = \hD4 -> call_conditional(s, "Carry", FALSE)
    [] instruction = \hD5 -> push(s, "DE")
    [] instruction = \hD6 -> sui(s)
    [] instruction = \hD8 -> ret_conditional(s, "Carry", TRUE)
    [] instruction = \hDA -> jmp_conditional(s, "Carry", TRUE)
    [] instruction = \hDB -> device_in(s)
    [] instruction = \hDC -> call_conditional(s, "Carry", TRUE)
    [] instruction = \hDE -> sbi(s)
    [] instruction = \hE0 -> ret_conditional(s, "Parity", FALSE)
    [] instruction = \hE1 -> pop(s, "HL")
    [] instruction = \hE2 -> jmp_conditional(s, "Parity", FALSE)
    [] instruction = \hE3 -> xthl(s)
    [] instruction = \hE4 -> call_conditional(s, "Parity", FALSE)
    [] instruction = \hE5 -> push(s, "HL")
    [] instruction = \hE6 -> ani(s)
    [] instruction = \hE8 -> ret_conditional(s, "Parity", TRUE)
    [] instruction = \hE9 -> pchl(s)
    [] instruction = \hEA -> jmp_conditional(s, "Parity", TRUE)
    [] instruction = \hEB -> xchg(s)
    [] instruction = \hEC -> call_conditional(s, "Parity", TRUE)
    [] instruction = \hEE -> xri(s)
    [] instruction = \hF0 -> ret_conditional(s, "Sign", FALSE)
    [] instruction = \hF1 -> pop(s, "PSW")
    [] instruction = \hF2 -> jmp_conditional(s, "Sign", FALSE)
    [] instruction = \hF3 -> di(s)
    [] instruction = \hF4 -> call_conditional(s, "Sign", FALSE)
    [] instruction = \hF5 -> push(s, "PSW")
    [] instruction = \hF6 -> ori(s)
    [] instruction = \hF8 -> ret_conditional(s, "Sign", TRUE)
    [] instruction = \hF9 -> sphl(s)
    [] instruction = \hFA -> jmp_conditional(s, "Sign", TRUE)
    [] instruction = \hFB -> ei(s)
    [] instruction = \hFC -> call_conditional(s, "Sign", TRUE)
    [] instruction = \hFE -> cpi(s)

\* TRUE when tick on s gets as far as dispatching an instruction.
dispatches(s) ==
  /\ s.wait_cycles = 0
  /\ \/ s.interrupt_enabled /\ s.interrupt_opcode # None
     \/ ~s.halted

\* self.wait_cycles = self.dispatch(instruction)
execute(s, instruction) ==
  Bind(dispatch(s, instruction), LAMBDA t, cycles : [t EXCEPT !.wait_cycles = cycles])

\* The Some(x) arm without self.disable_interrupts().
take_interrupt_enabled(s) ==
  Ret([[s EXCEPT !.halted = FALSE] EXCEPT !.interrupt_opcode = None], s.interrupt_opcode[1])

\* The Some(x) arm without self.halted = false.
take_interrupt_halted(s) ==
  Ret([disable_interrupts(s) EXCEPT !.interrupt_opcode = None], s.interrupt_opcode[1])

\* The Some(x) arm of tick's match: the latched opcode is the instruction.
take_interrupt(s) ==
  Ret([disable_interrupts([s EXCEPT !.halted = FALSE]) EXCEPT !.interrupt_opcode = None],
      s.interrupt_opcode[1])

\* The None arm without its `if self.halted { return; }`.
tick_ready_unhalted(s) ==
  IF s.interrupt_opcode # None
  THEN Bind(take_interrupt(s), execute)
  ELSE Bind(fetch_byte(s), execute)

\* tick from `if !self.interrupt_enabled`, on a Cpu with wait_cycles = 0.
tick_ready(s) ==
  IF s.interrupt_opcode # None
  THEN Bind(take_interrupt(s), execute)
  ELSE IF s.halted THEN s
  ELSE Bind(fetch_byte(s), execute)

\* tick without `if !self.interrupt_enabled { self.interrupt_opcode = None; }`.
tick_keeps_latch(s) ==
  IF s.wait_cycles > 0
  THEN [s EXCEPT !.wait_cycles = s.wait_cycles - 1]
  ELSE tick_ready(s)

\* tick with the discard moved above the wait_cycles test.
tick_drops_first(s) ==
  IF s.wait_cycles > 0
  THEN [s EXCEPT !.wait_cycles = s.wait_cycles - 1,
                 !.interrupt_opcode = IF s.interrupt_enabled THEN s.interrupt_opcode ELSE None]
  ELSE tick_ready(IF ~s.interrupt_enabled THEN [s EXCEPT !.interrupt_opcode = None] ELSE s)

tick(s) ==
  IF s.wait_cycles > 0
  THEN [s EXCEPT !.wait_cycles = s.wait_cycles - 1]
  ELSE tick_ready(IF ~s.interrupt_enabled THEN [s EXCEPT !.interrupt_opcode = None] ELSE s)

\* receive_interrupt that keeps an interrupt already latched.
receive_interrupt_first(s, interrupt) ==
  IF s.interrupt_opcode = None THEN [s EXCEPT !.interrupt_opcode = Some(interrupt)] ELSE s

receive_interrupt(s, interrupt) == [s EXCEPT !.interrupt_opcode = Some(interrupt)]

set_input(s, device, value) == [s EXCEPT !.devices = SetCell(s.devices, device, value)]

\* get_output without `self.output = None`.
get_output_keeps(s) == Ret(s, s.output)

\* get_output hands back the slot and empties it.
get_output(s) == Ret([s EXCEPT !.output = None], s.output)

\* ------------------------------------------------------------ the CPU under its callers

\* Bounds of the exploration.
MaxInstr == 2
MaxLatched == 2

\* What application.rs passes to receive_interrupt: RST 1 and RST 2.
DriverVectors == {\hCF, \hD7}

\* A caller passes the opcodes of one device: every single opcode is tried,
\* and the frame driver's pair.
VectorSets == {{x} : x \in Byte} \cup {DriverVectors}

\* Register files a guest program can have built (LXI, MVI, POP PSW, PCHL,
\* SPHL) and the bytes around its program counter.
\* App::default and the locals of the thread App::new spawns, before its loop.
\* frame_buffer is the number of the frame whose image it holds (0: the black
\* image of App::default).  at is where the emulator thread is: "tick" before
\* line 64, "device2" before the lock of line 129.  update is None between two
\* calls of App::update and Some(device2_bits) between its two stores.
\* writes, played, calls and keys are history: the (device, value) pairs the
\* CPU has output, the sounds the last pass started, the calls made on the Cpu
\* in the current frame as <<name, argument or how many in a row>>, the keys
\* the last call of App::update found pressed.
\* Statement by statement (the two threads and their locks): held is the
\* mutexes whose guard each thread holds; at and ui say which statement each
\* thread is at, by the mutex the statement locks ("clone": update has copied
\* the upper half of the image and still holds the lock); pixels is the copy
\* update took, by the frame each half comes from; close is Some(frame at the
\* time) once update has sent ViewportCommand::Close.
App_new ==
  [frame_buffer |-> 0, device1 |-> 0, device2 |-> 0,
   shift_register |-> 0, shift_register_offest |-> 0,
   audio_handler |-> FALSE, last_device3 |-> 0, last_device5 |-> 0,
   tick |-> 0, at |-> "tick", update |-> None, panicked |-> FALSE,
   writes |-> << >>, played |-> << >>, calls |-> << >>, keys |-> {},
   held |-> [emulator |-> {}, ui |-> {}], ui |-> "frame_buffer",
   pixels |-> <<0, 0>>, close |-> None]

Fresh == Cpu_new(BasicMemory_new)

Edge ==
  [Fresh EXCEPT
     !.a = \hFF, !.b = \hFF, !.c = \hFF, !.d = \hFF, !.e = \hFF, !.h = \hFF, !.l = \hFF,
     !.pc = \hFFFF, !.sp = \h0001,
     !.conditions = [carry |-> TRUE, aux |-> TRUE, sign |-> TRUE, zero |-> TRUE, parity |-> TRUE],
     !.memory = write(write(BasicMemory_new, \hFFFF, \hFF), \h0000, \h34),
     !.devices = SetCell(ZeroCells, 1, \h08)]

Mid ==
  [Fresh EXCEPT
     !.a = \h5A, !.b = \h12, !.c = \h34, !.d = \h00, !.e = \h01, !.h = \h20, !.l = \h00,
     !.pc = \h0102, !.sp = \hFFFF,
     !.conditions = [carry |-> TRUE, aux |-> FALSE, sign |-> FALSE, zero |-> TRUE, parity |-> FALSE],
     !.memory = write(write(write(BasicMemory_new, \h0102, \hFF), \h0103, \hFF), \h2000, \h80),
     !.devices = SetCell(ZeroCells, \hFF, \h8F)]

Presets == {Fresh, Edge, Mid}

\* Opcodes found at the program counter: NOP, EI, HLT, RST 1, RST 7, OUT.
ProgramOps == {\h00, \hFB, \h76, \hCF, \hFF, \hD3}

\* last.irq: the opcode of the latest receive_interrupt call, None before the first.
Start == [call |-> "new", arg |-> 0, pre |-> Fresh, irq |-> None]

InitSweep ==
  /\ vectors \in {{x} : x \in Byte}
  /\ \E p \in Presets, ie \in BOOLEAN : cpu = [p EXCEPT !.interrupt_enabled = ie]

InitProgram ==
  /\ vectors = DriverVectors
  /\ \E p \in Presets, ie \in BOOLEAN, op \in ProgramOps :
       cpu = [p EXCEPT !.interrupt_enabled = ie, !.memory = write(p.memory, p.pc, op)]

Init ==
  /\ InitSweep \/ InitProgram
  /\ overflow_checks \in BOOLEAN
  /\ dispatched = 0
  /\ latched = 0
  /\ last = Start
  /\ bus = SpaceInvadersMemory_new(ZeroCells)
  /\ ram16k = ZeroCells
  /\ seen = << >>
  /\ app = App_new

Tick ==
  /\ ~cpu.panicked
  /\ dispatches(cpu) => dispatched < MaxInstr
  /\ cpu' = tick(cpu)
  /\ dispatched' = IF dispatches(cpu) THEN dispatched + 1 ELSE dispatched
  /\ last' = [call |-> "tick", arg |-> 0, pre |-> cpu, irq |-> last.irq]
  /\ UNCHANGED <<app, overflow_checks, latched, vectors, bus, ram16k, seen>>

ReceiveInterrupt ==
  /\ ~cpu.panicked
  /\ latched < MaxLatched
  /\ \E op \in vectors :
       /\ cpu' = receive_interrupt(cpu, op)
       /\ last' = [call |-> "receive_interrupt", arg |-> op, pre |-> cpu, irq |-> Some(op)]
  /\ latched' = latched + 1
  /\ UNCHANGED <<app, overflow_checks, dispatched, vectors, bus, ram16k, seen>>

Next == Tick \/ ReceiveInterrupt

Spec == Init /\ [][Next]_vars

\* ------------------------------------------------------------ the arcade bus on its own

\* Addresses at both ends of every 8 KiB band of the map.
BusAddrs ==
  {\h0000, \h1FFF, \h2000, \h3FFF, \h4000, \h5FFF, \h6000, \h7FFF,
   \h8000, \h9FFF, \hA000, \hBFFF, \hC000, \hDFFF, \hE000, \hFFFF}

BusValues == {\h00, \h5A, \hFF}

\* ROM images: the blank one, and one with bytes at both ends.
RomImages == {ZeroCells, (\h0000 :> \hC3) @@ (\h1FFF :> \h76)}

\* The 16 KiB memory addressed by addr mod 0x4000 that the bus is compared
\* with: cells 0x2000..0x3FFF take writes, cells 0x0000..0x1FFF do not.
Fold(addr) == addr % 16384

FoldedWrite(cells, addr, data) ==
  IF Fold(addr) \in \h2000 .. \h3FFF THEN SetCell(cells, Fold(addr), data) ELSE cells

InitBus ==
  /\ \E rom \in RomImages :
       /\ bus = SpaceInvadersMemory_new(rom)
       /\ ram16k = rom
  /\ seen = << >>
  /\ app = App_new
  /\ cpu = Fresh
  /\ overflow_checks = FALSE
  /\ dispatched = 0
  /\ latched = 0
  /\ vectors = {}
  /\ last = Start

BusWrite ==
  /\ \E addr \in BusAddrs, data \in BusValues :
       /\ bus' = write(bus, addr, data)
       /\ ram16k' = FoldedWrite(ram16k, addr, data)
       /\ last' = [call |-> "write", arg |-> <<addr, data>>, pre |-> last.pre, irq |-> None]
  /\ UNCHANGED <<app, cpu, overflow_checks, dispatched, latched, vectors, seen>>

BusRead ==
  /\ \E addr \in BusAddrs : seen' = <<addr, read(bus, addr)>>
  /\ UNCHANGED <<app, cpu, overflow_checks, dispatched, latched, vectors, last, bus, ram16k>>

NextBus == BusWrite \/ BusRead

SpecBus == InitBus /\ [][NextBus]_vars

\* ------------------------------------------------------------ the flags byte

\* Conditions::new(), then restore_from_bits with any byte and as_bits of the
\* flags it left, in any order and any number of times.  seen is the byte
\* last restored with the byte as_bits then returned.
InitFlags ==
  /\ cpu = Fresh
  /\ seen = << >>
  /\ app = App_new
  /\ overflow_checks = FALSE
  /\ dispatched = 0
  /\ latched = 0
  /\ vectors = {}
  /\ last = Start
  /\ bus = SpaceInvadersMemory_new(ZeroCells)
  /\ ram16k = ZeroCells

RestoreFromBits ==
  /\ \E bits \in Byte :
       /\ cpu' = [cpu EXCEPT !.conditions = restore_from_bits(cpu.conditions, bits)]
       /\ last' = [call |-> "restore_from_bits", arg |-> bits, pre |-> last.pre, irq |-> None]
  /\ seen' = << >>
  /\ UNCHANGED <<app, overflow_checks, dispatched, latched, vectors, bus, ram16k>>

AsBits ==
  /\ last.call = "restore_from_bits"
  /\ seen' = <<last.arg, as_bits(cpu.conditions)>>
  /\ UNCHANGED <<app, cpu, overflow_checks, dispatched, latched, vectors, last, bus, ram16k>>

NextFlags == RestoreFromBits \/ AsBits

SpecFlags == InitFlags /\ [][NextFlags]_vars

\* ------------------------------------------------------------ properties

\* The tick that led to the current state found wait_cycles = 0 and took the
\* latched opcode p.interrupt_opcode as its instruction.
Injects(p) == p.wait_cycles = 0 /\ p.interrupt_enabled /\ p.interrupt_opcode # None

\* ... found wait_cycles = 0 and fetched its instruction at p.pc.
Fetches(p) ==
  /\ p.wait_cycles = 0
  /\ ~(p.interrupt_enabled /\ p.interrupt_opcode # None)
  /\ ~p.halted

\* The instruction a dispatching tick started from p runs.
Opcode(p) == IF Injects(p) THEN p.interrupt_opcode[1] ELSE read(p.memory, p.pc)

Ticked == last.call = "tick"

\* p once the latched interrupt is acknowledged.
Acknowledged(p) ==
  [p EXCEPT !.halted = FALSE, !.interrupt_enabled = FALSE, !.interrupt_opcode = None]

\* Registers, PC, SP, flags and memory.
Core(p) == <<p.a, p.b, p.c, p.d, p.e, p.h, p.l, p.pc, p.sp, p.conditions, p.memory>>

EI_op  == {\hFB}
HLT_op == {\h76}
RST_ops == {\hC7, \hCF, \hD7, \hDF, \hE7, \hEF, \hF7, \hFF}

\* Opcodes that load PC: Rcc, Jcc, JMP, Ccc, CALL, RST, RET, PCHL.
TransferOps ==
  {op \in 192 .. 255 : op % 8 \in {0, 2, 4, 7}} \cup {\hC3, \hCB, \hC9, \hD9, \hCD, \hDD, \hED, \hFD, \hE9}

\* Operand bytes that follow the opcode (instruction table of the specification).
OperandBytes(op) ==
  IF op \in {\h01, \h11, \h21, \h31, \h22, \h2A, \h32, \h3A} THEN 2
  ELSE IF op >= 192 /\ (op % 8 \in {2, 4} \/ op \in {\hC3, \hCB, \hCD, \hDD, \hED, \hFD}) THEN 2
  ELSE IF (op < 64 \/ op >= 192) /\ op % 8 = 6 THEN 1
  ELSE IF op \in {\hD3, \hDB} THEN 1
  ELSE 0

\* Is condition cc of opcode op (bits 5..3: NZ Z NC C PO PE P M) met by flags f?
Taken(op, f) ==
  LET cc == (op \div 8) % 8
  IN  CASE cc = 0 -> ~f.zero
        [] cc = 1 -> f.zero
        [] cc = 2 -> ~f.carry
        [] cc = 3 -> f.carry
        [] cc = 4 -> ~f.parity
        [] cc = 5 -> f.parity
        [] cc = 6 -> ~f.sign
        [] cc = 7 -> f.sign

\* Nominal cycles of opcode op run with flags f: the Cycles column of the
\* instruction table of the specification.
NominalCycles(op, f) ==
  CASE op = \h76 -> 7
    [] op \in 64 .. 127 /\ op # \h76 -> IF op % 8 = 6 \/ (op \div 8) % 8 = 6 THEN 7 ELSE 5
    [] op \in 128 .. 191 -> IF op % 8 = 6 THEN 7 ELSE 4
    [] op < 64 /\ op % 8 = 0 -> 4
    [] op < 64 /\ op % 16 \in {1, 9} -> 10
    [] op \in {\h02, \h12, \h0A, \h1A} -> 7
    [] op \in {\h22, \h2A} -> 16
    [] op \in {\h32, \h3A} -> 13
    [] op < 64 /\ op % 16 \in {3, 11} -> 5
    [] op < 64 /\ op % 8 \in {4, 5} -> IF op \in {\h34, \h35} THEN 10 ELSE 5
    [] op < 64 /\ op % 8 = 6 -> IF op = \h36 THEN 10 ELSE 7
    [] op < 64 /\ op % 8 = 7 -> 4
    [] op >= 192 /\ op % 8 = 0 -> IF Taken(op, f) THEN 11 ELSE 5
    [] op \in {\hC1, \hD1, \hE1, \hF1} -> 10
    [] op >= 192 /\ op % 8 = 2 -> 10
    [] op \in {\hC3, \hCB} -> 10
    [] op >= 192 /\ op % 8 = 4 -> IF Taken(op, f) THEN 17 ELSE 11
    [] op \in {\hC5, \hD5, \hE5, \hF5} -> 11
    [] op >= 192 /\ op % 8 = 6 -> 7
    [] op >= 192 /\ op % 8 = 7 -> 11
    [] op \in {\hC9, \hD9} -> 10
    [] op \in {\hCD, \hDD, \hED, \hFD} -> 17
    [] op \in {\hD3, \hDB} -> 10
    [] op = \hE3 -> 18
    [] op \in {\hE9, \hEB, \hF9} -> 5
    [] op \in {\hF3, \hFB} -> 4

\* What C1 promises of the tick that ran the injected opcode of last.pre.
InjectedInPlace ==
  /\ cpu.interrupt_opcode = None
  /\ ~cpu.interrupt_enabled
  /\ Opcode(last.pre) \notin TransferOps =>
       cpu.pc = (last.pre.pc + OperandBytes(Opcode(last.pre))) % 65536

\* C1 (as stated): after receive_interrupt(op) with interrupts enabled, the
\* next tick that finds wait_cycles = 0 runs op in place of a fetch: PC is
\* advanced by no opcode fetch, the latch is cleared and interrupt_enabled is
\* false when the tick returns, for every op in 0x00..0xFF.
C1_AsStated ==
  (Ticked /\ Injects(last.pre) /\ ~cpu.panicked) => InjectedInPlace

\* C1 (amended): the same for every op except EI (0xFB), which sets
\* interrupt_enabled again before the tick returns; the state the tick leaves
\* is the one op produces on the acknowledged Cpu with PC where it was.
C1_InjectedRunsInPlaceOfFetch ==
  (Ticked /\ Injects(last.pre) /\ Opcode(last.pre) \notin EI_op /\ ~cpu.panicked) =>
    /\ InjectedInPlace
    /\ cpu = execute(Acknowledged(last.pre), Opcode(last.pre))

\* An injected MVI A ran: its operand was read at PC, which moved by one only.
C1_Witness ==
  /\ Ticked /\ Injects(last.pre) /\ Opcode(last.pre) = \h3E /\ ~cpu.panicked
  /\ last.pre.pc = \h0102
  /\ cpu.pc = \h0103 /\ cpu.a = \hFF
  /\ ~cpu.interrupt_enabled /\ cpu.interrupt_opcode = None

\* C2: a tick that finds wait_cycles = 0 and interrupts disabled drops the
\* latched interrupt before it fetches: the latch is empty afterwards, the
\* tick does exactly what it does with nothing latched, this is so even when
\* the instruction it fetches is EI, and no tick latches an interrupt.
C2_DisabledTickDropsLatch ==
  /\ (Ticked /\ last.pre.wait_cycles = 0 /\ ~last.pre.interrupt_enabled) =>
       /\ cpu.interrupt_opcode = None
       /\ cpu = tick([last.pre EXCEPT !.interrupt_opcode = None])
       /\ (~last.pre.halted /\ read(last.pre.memory, last.pre.pc) \in EI_op /\ ~cpu.panicked) =>
            /\ cpu.interrupt_enabled
            /\ cpu.pc = (last.pre.pc + 1) % 65536
  /\ (Ticked /\ last.pre.interrupt_opcode = None) => cpu.interrupt_opcode = None

\* EI was fetched by a tick that found an interrupt latched with interrupts disabled.
C2_Witness ==
  /\ Ticked /\ last.pre.wait_cycles = 0 /\ ~last.pre.interrupt_enabled
  /\ last.pre.interrupt_opcode # None
  /\ ~last.pre.halted /\ read(last.pre.memory, last.pre.pc) \in EI_op
  /\ ~cpu.panicked /\ cpu.interrupt_enabled /\ cpu.interrupt_opcode = None

\* C3: a tick that finds wait_cycles > 0 decrements it by one and leaves every
\* other field as it was, the latched interrupt included.
C3_WaitingTickOnlyDecrements ==
  (Ticked /\ last.pre.wait_cycles > 0) =>
    cpu = [last.pre EXCEPT !.wait_cycles = last.pre.wait_cycles - 1]

\* A waiting tick passed over an interrupt latched with interrupts disabled.
C3_Witness ==
  /\ Ticked /\ last.pre.wait_cycles > 0
  /\ ~last.pre.interrupt_enabled /\ last.pre.interrupt_opcode # None
  /\ cpu.interrupt_opcode = last.pre.interrupt_opcode
  /\ cpu.wait_cycles = last.pre.wait_cycles - 1

\* C4: a fetched HLT halts the Cpu, and a tick of a halted Cpu with nothing
\* latched leaves it halted with registers, PC, SP, flags and memory as they were.
C4_HaltedIsStable ==
  /\ (Ticked /\ Fetches(last.pre) /\ Opcode(last.pre) \in HLT_op /\ ~cpu.panicked) =>
       /\ cpu.halted
       /\ cpu.pc = (last.pre.pc + 1) % 65536
  /\ (Ticked /\ last.pre.halted /\ last.pre.interrupt_opcode = None) =>
       /\ Core(cpu) = Core(last.pre)
       /\ cpu.halted
       /\ cpu.interrupt_opcode = None

\* A halted Cpu whose wait cycles have run out was ticked.
C4_Witness ==
  /\ Ticked /\ last.pre.halted /\ last.pre.wait_cycles = 0
  /\ last.pre.interrupt_opcode = None
  /\ cpu.halted /\ cpu.pc = last.pre.pc

\* C5 (as stated): right after any tick that consumed a latched interrupt
\* halted is false, whatever the opcode.
C5_AsStated ==
  (Ticked /\ Injects(last.pre)) => ~cpu.halted

\* C5 (amended): right after a tick that consumed a latched interrupt halted
\* is false, unless the opcode is HLT (0x76), which halts the Cpu again.
C5_ConsumedInterruptUnhalts ==
  (Ticked /\ Injects(last.pre) /\ Opcode(last.pre) \notin HLT_op) => ~cpu.halted

\* A halted Cpu consumed an interrupt and runs again.
C5_Witness ==
  /\ Ticked /\ Injects(last.pre) /\ last.pre.halted
  /\ Opcode(last.pre) \in RST_ops
  /\ ~cpu.halted /\ ~cpu.panicked

\* C6: receive_interrupt(op) latches op whatever interrupt_enabled, halted and
\* wait_cycles are and changes nothing else; the latch holds at most one
\* opcode; the opcode a tick consumes is the one of the latest call.
C6_LatchHoldsLastCall ==
  /\ Len(cpu.interrupt_opcode) <= 1
  /\ last.call = "receive_interrupt" =>
       cpu = [last.pre EXCEPT !.interrupt_opcode = Some(last.arg)]
  /\ (Ticked /\ Injects(last.pre)) =>
       /\ last.pre.interrupt_opcode = last.irq
       /\ ~cpu.panicked => cpu = execute(Acknowledged(last.pre), last.irq[1])

\* RST 2 was latched over a pending RST 1 while the Cpu was waiting.
C6_Witness ==
  /\ last.call = "receive_interrupt"
  /\ last.pre.interrupt_opcode = Some(\hCF) /\ last.arg = \hD7
  /\ last.pre.wait_cycles > 0
  /\ cpu.interrupt_opcode = Some(\hD7)

\* C7: a tick that runs RST (any of the eight) with SP = s stores the high
\* byte of the pushed PC at s-1 and its low byte at s-2, leaves SP = s-2 and
\* PC = opcode & 0x38; the pushed PC is the address after the RST byte when
\* the opcode was fetched and the current PC when it was injected, and after
\* an injected RST interrupts are disabled.
C7_RstPushesReturnAddress ==
  (Ticked /\ (Injects(last.pre) \/ Fetches(last.pre)) /\ Opcode(last.pre) \in RST_ops
     /\ ~cpu.panicked) =>
    LET s      == last.pre.sp
        pushed == IF Injects(last.pre) THEN last.pre.pc ELSE (last.pre.pc + 1) % 65536
        hi     == pushed \div 256
        lo     == pushed % 256
        top    == (s + 65535) % 65536
        below  == (s + 65534) % 65536
    IN  /\ read(cpu.memory, top) = hi
        /\ read(cpu.memory, below) = lo
        /\ \A addr \in (DOMAIN cpu.memory.memory \cup DOMAIN last.pre.memory.memory) \ {top, below} :
             read(cpu.memory, addr) = read(last.pre.memory, addr)
        /\ cpu.sp = below
        /\ cpu.pc = 8 * ((Opcode(last.pre) \div 8) % 8)
        /\ Injects(last.pre) => ~cpu.interrupt_enabled

\* receive_interrupt(0xCF) with interrupts enabled and SP = 0x2400, one tick.
C7_Witness ==
  /\ Ticked /\ Injects(last.pre) /\ Opcode(last.pre) = \hCF
  /\ last.pre.sp = \h2400 /\ last.pre.pc = \h0001
  /\ read(cpu.memory, \h23FF) = \h00 /\ read(cpu.memory, \h23FE) = \h01
  /\ cpu.sp = \h23FE /\ cpu.pc = \h0008 /\ ~cpu.interrupt_enabled

\* C8: the tick that dispatches an opcode leaves wait_cycles at the opcode's
\* nominal cycles minus one, the nominal count being one of 4, 5, 7, 10, 11,
\* 13, 16, 17, 18; the ticks that follow only count it down, so that many
\* ticks pass before the next dispatch.
C8_WaitCyclesAreNominalMinusOne ==
  /\ (Ticked /\ (Injects(last.pre) \/ Fetches(last.pre)) /\ ~cpu.panicked) =>
       /\ cpu.wait_cycles = NominalCycles(Opcode(last.pre), last.pre.conditions) - 1
       /\ NominalCycles(Opcode(last.pre), last.pre.conditions) \in {4, 5, 7, 10, 11, 13, 16, 17, 18}
  /\ (Ticked /\ last.pre.wait_cycles > 0) =>
       /\ cpu.wait_cycles = last.pre.wait_cycles - 1
       /\ cpu.pc = last.pre.pc

\* An injected CZ was taken: 17 cycles.
C8_Witness ==
  /\ Ticked /\ Injects(last.pre) /\ Opcode(last.pre) = \hCC
  /\ last.pre.conditions.zero /\ ~cpu.panicked
  /\ cpu.wait_cycles = 16

\* C9 (as stated): every tick returns, whatever the opcode and the state.
C9_TickReturns == Ticked => ~cpu.panicked

\* C10 (as stated): the arcade bus is the 16 KiB memory addressed by
\* addr mod 0x4000: a read returns the cell addr mod 0x4000 of that memory.
C10_BusFoldsModulo16K ==
  seen # << >> => seen[2] = Cell(ram16k, Fold(seen[1]))

\* The bytes of the image given to new: cells 0x0000..0x1FFF of ram16k, which
\* starts as the image and takes no write below 0x2000.
RomByte(addr) == Cell(ram16k, addr)

\* The ROM addresses that any state can tell apart: both ends of the band and
\* every cell that holds a byte.
RomAddrs == (BusAddrs \cup DOMAIN bus.memory \cup DOMAIN ram16k) \cap (0 .. ROM_SIZE - 1)

\* C11: after any sequence of writes to the arcade bus, mirrors included, a
\* read of an address in 0x0000..0x1FFF returns the byte of the ROM image.
C11_RomReadsTheImage == \A addr \in RomAddrs : read(bus, addr) = RomByte(addr)

\* The last write went to the first mirror of ROM address 0 with a byte that
\* is not the image's, and the image's byte is still read.
C11_Witness ==
  /\ last.call = "write" /\ last.arg = <<\h4000, \hFF>>
  /\ bus.memory # SpaceInvadersMemory_new(ram16k).memory
  /\ read(bus, \h0000) = \hC3 /\ read(bus, \h1FFF) = \h76

\* C12 (as stated): restoring the flags from a byte b and packing them again
\* gives a byte p with p & 0xD7 = b & 0xD7.
C12_AsStated == seen # << >> => BitAnd(seen[2], \hD7) = BitAnd(seen[1], \hD7)

\* C12: restoring the flags from a byte b and packing them again gives a byte
\* p that agrees with b on the five flag bits: p & 0xD5 = b & 0xD5.
C12_RepackKeepsFlagBits == seen # << >> => BitAnd(seen[2], \hD5) = BitAnd(seen[1], \hD5)

\* Every bit set in b: the flag bits come back, bit 1 is set, bits 3 and 5
\* are cleared.
C12_Witness == seen = <<\hFF, \hD7>>

\* ------------------------------------------------------------ one ALU instruction

\* Operand and accumulator values: every low nibble, and the bytes around the
\* carries out of bit 3 and bit 7.
AluBytes == (0 .. 15) \cup {\h10, \h7F, \h80, \h9A, \hF0, \hF1, \hFA, \hFE, \hFF}

AllFlags(v) == [carry |-> v, aux |-> v, sign |-> v, zero |-> v, parity |-> v]

\* Flags before the instruction: none, all, carry alone, all but carry.
AluFlags ==
  {AllFlags(FALSE), AllFlags(TRUE),
   [AllFlags(FALSE) EXCEPT !.carry = TRUE], [AllFlags(TRUE) EXCEPT !.carry = FALSE]}

FlagSets == [carry : BOOLEAN, aux : BOOLEAN, sign : BOOLEAN, zero : BOOLEAN, parity : BOOLEAN]

\* ADD ADC SUB SBB ANA XRA ORA CMP with B and with (HL); their immediate
\* forms; INR and DCR of B, (HL) and A.
AluOps ==
  {\h80, \h86, \h88, \h8E, \h90, \h96, \h98, \h9E,
   \hA0, \hA6, \hA8, \hAE, \hB0, \hB6, \hB8, \hBE,
   \hC6, \hCE, \hD6, \hDE, \hE6, \hEE, \hF6, \hFE,
   \h04, \h34, \h3C, \h05, \h35, \h3D}

\* RAL, RAR, DAA: run on every byte in A.
AccumulatorOps == {\h17, \h1F, \h27}

\* Rcc, Jcc, Ccc for the eight condition codes.
ConditionalOps == {op \in 192 .. 255 : op % 8 \in {0, 2, 4}}

\* A = x; the operand y is in B, at (HL) = 0x2000 and after the opcode at PC.
AluStart(x, y, f, op) ==
  [Fresh EXCEPT
     !.a = x, !.b = y, !.h = \h20, !.l = \h00, !.pc = \h0100, !.conditions = f,
     !.memory = write(write(write(BasicMemory_new, \h0100, op), \h0101, y), \h2000, y)]

\* The conditional opcode op at 0x0100 with the address 0x1234 after it, run
\* with flags f; SP = 0x2400 with the return address 0x5678 on the stack.
BranchStart(f, op) ==
  [Fresh EXCEPT
     !.pc = \h0100, !.sp = \h2400, !.conditions = f,
     !.memory = write(write(write(write(write(BasicMemory_new, \h0100, op), \h0101, \h34),
                                  \h0102, \h12), \h2400, \h78), \h2401, \h56)]

InitAlu ==
  /\ \/ \E x \in AluBytes, y \in AluBytes, f \in AluFlags, op \in AluOps :
          cpu = AluStart(x, y, f, op)
     \/ \E x \in Byte, f \in AluFlags, op \in AccumulatorOps : cpu = AluStart(x, 0, f, op)
     \/ \E f \in FlagSets, op \in ConditionalOps : cpu = BranchStart(f, op)
  /\ overflow_checks \in BOOLEAN
  /\ dispatched = 0
  /\ latched = 0
  /\ vectors = {}
  /\ last = Start
  /\ bus = SpaceInvadersMemory_new(ZeroCells)
  /\ ram16k = ZeroCells
  /\ seen = << >>
  /\ app = App_new

\* The one tick that runs the instruction at PC.
AluTick ==
  /\ dispatched = 0
  /\ cpu' = tick(cpu)
  /\ dispatched' = 1
  /\ last' = [call |-> "tick", arg |-> 0, pre |-> cpu, irq |-> last.irq]
  /\ UNCHANGED <<app, overflow_checks, latched, vectors, bus, ram16k, seen>>

NextAlu == AluTick

SpecAlu == InitAlu /\ [][NextAlu]_vars

\* ------------------------------------------------------------ properties of the ALU

\* The last tick fetched one of ops and returned.
Ran(ops) ==
  Ticked /\ Fetches(last.pre) /\ Opcode(last.pre) \in ops /\ ~cpu.panicked

\* Register number n of the opcode tables: B C D E H L (HL) A.
RegisterValue(p, n) ==
  CASE n = 0 -> p.b
    [] n = 1 -> p.c
    [] n = 2 -> p.d
    [] n = 3 -> p.e
    [] n = 4 -> p.h
    [] n = 5 -> p.l
    [] n = 6 -> read(p.memory, (256 * p.h) + p.l)
    [] n = 7 -> p.a

\* The operand of the ALU opcode at p.pc: imm8 for 0xC6.., register op % 8 for 0x80..0xBF.
Operand(p) ==
  IF Opcode(p) >= 192 THEN read(p.memory, (p.pc + 1) % 65536)
  ELSE RegisterValue(p, Opcode(p) % 8)

CarryIn(p) == IF p.conditions.carry THEN 1 ELSE 0

EvenParity(v) == Cardinality({i \in 0 .. 7 : (v \div (2 ^ i)) % 2 = 1}) % 2 = 0

\* Z, S and P of f are those of the byte v.
ZSPFrom(f, v) ==
  /\ f.zero = (v = 0)
  /\ f.sign = (v >= 128)
  /\ f.parity = EvenParity(v)

ADD_ops == {\h80, \h86}
ADC_ops == {\h88, \h8E, \hCE}
SUB_ops == {\h90, \h96}
SBB_ops == {\h98, \h9E, \hDE}
DCR_ops == {\h05, \h35, \h3D}
SubtractingOps == {\h90, \h96, \h98, \h9E, \hB8, \hBE, \hD6, \hDE, \hFE}
ImmediateOps == {\hC6, \hCE, \hD6, \hDE, \hE6, \hEE, \hF6, \hFE}
XorOrOps == {\hA8, \hAE, \hB0, \hB6, \hEE, \hF6}

\* C14: ADD with A = x and operand y leaves A = (x+y) mod 256, C = (x+y >= 256),
\* Z, S, P of the new A, and auxiliary carry = ((x & 0xF) + (y & 0xF) >= 0x10).
C14_AddResultAndFlags ==
  Ran(ADD_ops) =>
    LET x == last.pre.a
        y == Operand(last.pre)
    IN  /\ cpu.a = (x + y) % 256
        /\ cpu.conditions.carry = (x + y >= 256)
        /\ ZSPFrom(cpu.conditions, cpu.a)
        /\ cpu.conditions.aux = ((x % 16) + (y % 16) >= 16)

\* ADD B with A = 0xFF and B = 0x01: A = 0 with carry, zero and auxiliary carry.
C14_Witness ==
  /\ Ran(ADD_ops) /\ last.pre.a = \hFF /\ Operand(last.pre) = \h01
  /\ cpu.a = 0 /\ cpu.conditions.carry /\ cpu.conditions.zero /\ cpu.conditions.aux
  /\ cpu.conditions.parity /\ ~cpu.conditions.sign

\* C15: SUB with A = x and operand y leaves A = (x-y) mod 256, Z, S, P and
\* auxiliary carry those of add(x, (~y)+1 mod 256), and C = 1 exactly when x < y.
C15_SubResultAndFlags ==
  Ran(SUB_ops) =>
    LET x == last.pre.a
        y == Operand(last.pre)
        n == ((255 - y) + 1) % 256
    IN  /\ cpu.a = (x + 256 - y) % 256
        /\ cpu.a = (x + n) % 256
        /\ ZSPFrom(cpu.conditions, cpu.a)
        /\ cpu.conditions.aux = ((x % 16) + (n % 16) >= 16)
        /\ cpu.conditions.carry = (x < y)

\* SUB B with A = 0x10 and B = 0x9A: a borrow, A = 0x76.
C15_Witness ==
  /\ Ran(SUB_ops) /\ last.pre.a = \h10 /\ Operand(last.pre) = \h9A
  /\ cpu.a = \h76 /\ cpu.conditions.carry /\ ~cpu.conditions.zero

\* C16 (as stated): after SUB, SBB, CMP, SUI, SBI, CPI and DCR the auxiliary
\* carry is the carry out of bit 3 of (x & 0xF) + ((~y) & 0xF) + 1, x being
\* the minuend and y the subtrahend (1 for DCR).
C16_AuxAfterSubtract ==
  /\ Ran(SubtractingOps) =>
       cpu.conditions.aux =
         ((last.pre.a % 16) + (15 - (Operand(last.pre) % 16)) + 1 >= 16)
  /\ Ran(DCR_ops) =>
       cpu.conditions.aux =
         ((RegisterValue(last.pre, (Opcode(last.pre) \div 8) % 8) % 16) + (15 - 1) + 1 >= 16)

\* C17 (as stated): ADC and ACI with A = x, operand y and carry-in c leave
\* A = (x+y+c) mod 256, C = (x+y+c >= 256), auxiliary carry =
\* ((x & 0xF) + (y & 0xF) + c >= 0x10), and Z, S, P of the new A.
C17_AdcResultAndFlags ==
  Ran(ADC_ops) =>
    LET x == last.pre.a
        y == Operand(last.pre)
        c == CarryIn(last.pre)
    IN  /\ cpu.a = (x + y + c) % 256
        /\ cpu.conditions.carry = (x + y + c >= 256)
        /\ cpu.conditions.aux = ((x % 16) + (y % 16) + c >= 16)
        /\ ZSPFrom(cpu.conditions, cpu.a)

\* C18 (as stated): SBB and SBI with A = x, operand y and carry-in c leave
\* A = (x-y-c) mod 256, C = 1 exactly when x < y + c, and Z, S, P of the new A.
C18_SbbResultAndFlags ==
  Ran(SBB_ops) =>
    LET x == last.pre.a
        y == Operand(last.pre)
        c == CarryIn(last.pre)
    IN  /\ cpu.a = (x + 512 - y - c) % 256
        /\ cpu.conditions.carry = (x < y + c)
        /\ ZSPFrom(cpu.conditions, cpu.a)

\* The register form (operand in B) of the immediate opcode at p.pc, run on p
\* with B holding the immediate byte.
RegisterForm(p) ==
  dispatch([p EXCEPT !.b = Operand(p)], 128 + (Opcode(p) - \hC6)).cpu

\* C19 (as stated): ADI, ACI, SUI, SBI, ANI, XRI, ORI, CPI leave the A and the
\* five flags that ADD, ADC, SUB, SBB, ANA, XRA, ORA, CMP leave from the same
\* A, flags and operand value.
C19_ImmediateLikeRegisterForm ==
  (Ran(ImmediateOps) /\ ~RegisterForm(last.pre).panicked) =>
    /\ cpu.a = RegisterForm(last.pre).a
    /\ cpu.conditions = RegisterForm(last.pre).conditions

\* C20 (as stated): XRA, ORA, XRI and ORI leave carry and auxiliary carry
\* false and Z, S, P of the new A, whatever the flags were.
C20_XorOrClearCarries ==
  Ran(XorOrOps) =>
    /\ ~cpu.conditions.carry
    /\ ~cpu.conditions.aux
    /\ ZSPFrom(cpu.conditions, cpu.a)

ANA_ops == {\hA0, \hA6, \hE6}
INR_ops == {\h04, \h34, \h3C}
RAL_op == {\h17}
RAR_op == {\h1F}
DAA_op == {\h27}

Bit(v, i) == (v \div (2 ^ i)) % 2 = 1

\* C21 (as stated): ANA and ANI leave carry false, Z/S/P from the new A and
\* the auxiliary carry equal to bit 3 of the old A OR bit 3 of the operand.
C21_AndSetsAuxFromBit3 ==
  Ran(ANA_ops) =>
    /\ ~cpu.conditions.carry
    /\ ZSPFrom(cpu.conditions, cpu.a)
    /\ cpu.conditions.aux = (Bit(last.pre.a, 3) \/ Bit(Operand(last.pre), 3))

\* C22: INR and DCR of a register or of (HL) leave the carry flag as it was.
C22_IncDecKeepCarry ==
  Ran(INR_ops \cup DCR_ops) => cpu.conditions.carry = last.pre.conditions.carry

\* INR B wrapped 0xFF to 0x00 with carry clear before and after; Z is set.
C22_Witness ==
  /\ Ran({\h04}) /\ last.pre.b = \hFF /\ cpu.b = \h00
  /\ ~last.pre.conditions.carry /\ ~cpu.conditions.carry /\ cpu.conditions.zero

\* C23 (as stated): RAL leaves A = ((A << 1) | c) & 0xFF and carry = old bit 7
\* of A; RAR leaves A = (A >> 1) | (c << 7) and carry = old bit 0 of A.
C23_RotateThroughCarry ==
  /\ Ran(RAL_op) =>
       /\ cpu.a = ((2 * last.pre.a) + CarryIn(last.pre)) % 256
       /\ cpu.conditions.carry = Bit(last.pre.a, 7)
  /\ Ran(RAR_op) =>
       /\ cpu.a = (last.pre.a \div 2) + (128 * CarryIn(last.pre))
       /\ cpu.conditions.carry = Bit(last.pre.a, 0)

\* The two steps of DAA on the byte x with auxiliary carry ac and carry c, as
\* the claim words them: <<A, auxiliary carry, carry>> afterwards.
DaaLow(x, ac) == (x % 16) > 9 \/ ac
DaaA1(x, ac) == IF DaaLow(x, ac) THEN (x + 6) % 256 ELSE x
DaaHigh(x, ac, c) == (DaaA1(x, ac) \div 16) > 9 \/ c
Adjusted(x, ac, c) ==
  <<IF DaaHigh(x, ac, c) THEN (DaaA1(x, ac) + 96) % 256 ELSE DaaA1(x, ac),
    IF DaaLow(x, ac) THEN (x % 16) + 6 >= 16 ELSE ac,
    IF DaaHigh(x, ac, c) THEN (DaaA1(x, ac) \div 16) + 6 >= 16 ELSE c>>

\* C24 (as stated): for every A, carry and auxiliary carry, DAA adds 6 to A
\* when the low nibble is above 9 or auxiliary carry is set, then 6 to the
\* high nibble when it is above 9 or carry is set, and sets Z/S/P from A.
C24_DecimalAdjust ==
  (Ticked /\ Fetches(last.pre) /\ Opcode(last.pre) \in DAA_op) =>
    /\ ~cpu.panicked
    /\ <<cpu.a, cpu.conditions.aux, cpu.conditions.carry>>
         = Adjusted(last.pre.a, last.pre.conditions.aux, last.pre.conditions.carry)
    /\ ZSPFrom(cpu.conditions, cpu.a)

\* The same of every DAA that returned.
DaaAdjustsWhenItReturns ==
  Ran(DAA_op) =>
    /\ <<cpu.a, cpu.conditions.aux, cpu.conditions.carry>>
         = Adjusted(last.pre.a, last.pre.conditions.aux, last.pre.conditions.carry)
    /\ ZSPFrom(cpu.conditions, cpu.a)

\* What the conditional opcode op did, seen from the state it left: Jcc loaded
\* PC with its operand, Ccc also pushed the address after its 3 bytes, Rcc
\* popped PC.
Branched(p, q, op) ==
  CASE op % 8 = 2 -> q.pc = \h1234 /\ q.sp = p.sp /\ q.memory = p.memory
    [] op % 8 = 4 ->
         /\ q.pc = \h1234 /\ q.sp = p.sp - 2
         /\ read(q.memory, q.sp) = \h03 /\ read(q.memory, q.sp + 1) = \h01
    [] op % 8 = 0 -> q.pc = \h5678 /\ q.sp = p.sp + 2 /\ q.memory = p.memory

\* The opcode fell through: PC after its bytes, SP and memory as they were,
\* cycles 10, 11 and 5 (the tick that dispatched is the first of them).
FellThrough(p, q, op) ==
  /\ q.pc = p.pc + (IF op % 8 = 0 THEN 1 ELSE 3)
  /\ q.sp = p.sp /\ q.memory = p.memory
  /\ q.wait_cycles + 1 = (CASE op % 8 = 2 -> 10 [] op % 8 = 4 -> 11 [] op % 8 = 0 -> 5)

\* C25: each of the 24 conditional opcodes branches exactly when the
\* condition of its code holds, and otherwise falls through with PC after its
\* bytes, SP and memory unchanged and 10, 11 and 5 cycles.
C25_BranchesOnItsCondition ==
  Ran(ConditionalOps) =>
    IF Taken(Opcode(last.pre), last.pre.conditions)
    THEN Branched(last.pre, cpu, Opcode(last.pre))
    ELSE FellThrough(last.pre, cpu, Opcode(last.pre))

\* CZ 0x1234 with Z clear and every other flag set: PC moved by 3, SP is
\* where it was, 10 cycles remain of the 11.
C25_Witness ==
  /\ Ran({\hCC}) /\ ~last.pre.conditions.zero
  /\ last.pre.conditions.carry /\ last.pre.conditions.sign /\ last.pre.conditions.parity
  /\ cpu.pc = \h0103 /\ cpu.sp = \h2400 /\ cpu.wait_cycles = 10

\* ------------------------------------------------------------ PUSH then POP

PushOps == {\hC5, \hD5, \hE5, \hF5}

\* POP rp is PUSH rp - 4: 0xC1, 0xD1, 0xE1, 0xF1.
PopOf(push_op) == push_op - 4

\* Bytes held by the pair that is pushed.
StackBytes == {\h00, \hA5, \hFF}

\* Every register holds a byte of its own, so that a byte restored into the
\* wrong register shows.
Distinct ==
  [Fresh EXCEPT !.a = \h11, !.b = \h22, !.c = \h33, !.d = \h44, !.e = \h55, !.h = \h66,
                !.l = \h77, !.pc = \h0100]

\* s with the pair that op pushes set to high, low (A for PSW; its low byte is
\* the flags).
WithPair(s, op, high, low) ==
  CASE op = \hC5 -> [s EXCEPT !.b = high, !.c = low]
    [] op = \hD5 -> [s EXCEPT !.d = high, !.e = low]
    [] op = \hE5 -> [s EXCEPT !.h = high, !.l = low]
    [] op = \hF5 -> [s EXCEPT !.a = high]

\* PUSH rp; POP rp at 0x0100, on the flat bus and in the ROM of the arcade bus.
FlatProgram(op) == write(write(BasicMemory_new, \h0100, op), \h0101, PopOf(op))
ArcadeProgram(op) == SpaceInvadersMemory_new((\h0100 :> op) @@ (\h0101 :> PopOf(op)))

\* Stack pointers: in the arcade RAM, at the top of memory, and where the
\* push wraps below 0x0000 (flat bus only: 0x0000 is ROM on the arcade bus).
StackTops(op) ==
  {<<FlatProgram(op), sp>> : sp \in {\h2400, \hFFFF, \h0001}}
    \cup {<<ArcadeProgram(op), sp>> : sp \in {\h2400, \hFFFF}}

InitStack ==
  /\ \E op \in PushOps, high \in StackBytes, low \in StackBytes, f \in FlagSets :
       \E top \in StackTops(op) :
         cpu = [WithPair(Distinct, op, high, low) EXCEPT
                  !.conditions = f, !.memory = top[1], !.sp = top[2]]
  /\ last = [call |-> "new", arg |-> 0, pre |-> cpu, irq |-> None, first |-> cpu]
  /\ overflow_checks \in BOOLEAN
  /\ dispatched = 0
  /\ latched = 0
  /\ vectors = {}
  /\ bus = SpaceInvadersMemory_new(ZeroCells)
  /\ ram16k = ZeroCells
  /\ seen = << >>
  /\ app = App_new

\* last.first: the Cpu as it was built, before the first tick.
StackTick ==
  /\ ~cpu.panicked
  /\ dispatches(cpu) => dispatched < MaxInstr
  /\ cpu' = tick(cpu)
  /\ dispatched' = IF dispatches(cpu) THEN dispatched + 1 ELSE dispatched
  /\ last' = [call |-> "tick", arg |-> 0, pre |-> cpu, irq |-> None, first |-> last.first]
  /\ UNCHANGED <<app, overflow_checks, latched, vectors, bus, ram16k, seen>>

NextStack == StackTick

SpecStack == InitStack /\ [][NextStack]_vars

\* The tick that led to the current state ran POP rp, the instruction before
\* it was the PUSH rp of the same pair, and both returned.
PushedThenPopped(op) ==
  /\ Ticked /\ dispatched = 2 /\ Fetches(last.pre) /\ ~cpu.panicked
  /\ Opcode(last.first) = op /\ Opcode(last.pre) = PopOf(op)

\* The 16 bits of the pair that op pushes; the low byte of PSW is the five flags.
PairValue(p, op) ==
  CASE op = \hC5 -> <<p.b, p.c>>
    [] op = \hD5 -> <<p.d, p.e>>
    [] op = \hE5 -> <<p.h, p.l>>
    [] op = \hF5 -> <<p.a, p.conditions>>

\* C13: PUSH rp immediately followed by POP rp leaves the pair (for PSW: A and
\* the five flags) and SP as they were before the PUSH.
C13_PushPopRoundTrip ==
  \A op \in PushOps :
    PushedThenPopped(op) =>
      /\ PairValue(cpu, op) = PairValue(last.first, op)
      /\ cpu.sp = last.first.sp

\* PUSH PSW; POP PSW on the arcade bus with A = 0xA5 and the flags C, Z set,
\* P, S, AC clear: the stack bytes 0x43, 0xA5 sit in RAM below 0x2400.
C13_Witness ==
  /\ PushedThenPopped(\hF5)
  /\ cpu.memory.kind = "arcade" /\ cpu.sp = \h2400
  /\ read(cpu.memory, \h23FE) = \h43 /\ read(cpu.memory, \h23FF) = \hA5
  /\ cpu.a = \hA5 /\ cpu.conditions.carry /\ cpu.conditions.zero /\ ~cpu.conditions.sign

\* ------------------------------------------------------------ application.rs

\* if tick == 16668
half_frame_late(a) == a.tick = 16668

\* if tick == 16667
half_frame(a) == a.tick = 16667

\* The play_sound calls of one OUT 3 / OUT 5 arm, in order: bit i of value is
\* set and that of the last value written is not; sound first + i.
play_sounds(value, last_device, bits, first) ==
  LET rises(i) == BitAnd(value, 2 ^ i) = 2 ^ i /\ BitAnd(last_device, 2 ^ i) # 2 ^ i
      F[n \in 0 .. bits] ==
        IF n = 0 THEN << >>
        ELSE IF rises(n - 1) THEN Append(F[n - 1], first + n - 1) ELSE F[n - 1]
  IN  F[bits]

\* The match with the 0x4 arm shifting the value in from below:
\* shift_register = (shift_register << 8) | value.
match_device_low(a, device, value) ==
  CASE device = 2 -> [a EXCEPT !.shift_register_offest = BitAnd(value, \h07)]
    [] device = 4 ->
         [a EXCEPT !.shift_register = BitOr(AsU16(a.shift_register * 256), value)]
    [] device \in {3, 5, 6} -> a
    [] OTHER -> [a EXCEPT !.panicked = TRUE]

\* match device { .. } on the pair get_output returned.
match_device(a, device, value) ==
  CASE device = 2 -> [a EXCEPT !.shift_register_offest = BitAnd(value, \h07)]
    [] device = 3 ->
         IF a.audio_handler
         THEN [a EXCEPT !.played = play_sounds(value, a.last_device3, 4, 0),
                        !.last_device3 = value]
         ELSE a
    [] device = 4 ->
         [a EXCEPT !.shift_register = BitOr(AsU16(value * 256), a.shift_register \div 256)]
    [] device = 5 ->
         IF a.audio_handler
         THEN [a EXCEPT !.played = play_sounds(value, a.last_device5, 5, 4),
                        !.last_device5 = value]
         ELSE a
    [] device = 6 -> a
    [] OTHER -> [a EXCEPT !.panicked = TRUE]

\* The calls of the frame with one more c.tick().
Ticking(calls) ==
  IF calls # << >> /\ calls[Len(calls)][1] = "tick"
  THEN [calls EXCEPT ![Len(calls)] = <<"tick", calls[Len(calls)][2] + 1>>]
  ELSE Append(calls, <<"tick", 1>>)

\* Lines 127-128 once the output is handled; a panic in the match ends the thread.
after_output(u, b) ==
  IF b.panicked THEN [cpu |-> u, app |-> b]
  ELSE [cpu |-> set_input(set_input(u, 0, 143), 1, b.device1),
        app |-> [b EXCEPT !.at = "device2"]]

\* Lines 68-128 with t the Cpu that c.tick() left; a panic in tick ends the thread.
after_tick(t, a) ==
  IF t.panicked THEN [cpu |-> t, app |-> [a EXCEPT !.panicked = TRUE]]
  ELSE after_output(get_output(t).cpu,
                    IF t.output = None THEN a
                    ELSE match_device([a EXCEPT !.writes = Append(@, t.output[1])],
                                      t.output[1][1], t.output[1][2]))

\* One pass of the while loop up to the lock of device1 (lines 63-128).
EmulatorTick ==
  /\ ~app.panicked /\ app.at = "tick" /\ app.tick < 33333
  /\ LET c == IF half_frame(app) THEN receive_interrupt(cpu, \hCF) ELSE cpu
         begun == IF app.tick = 0 THEN << >> ELSE app.calls
         r == after_tick(tick(c),
                         [app EXCEPT !.played = << >>,
                                     !.calls = Ticking(IF half_frame(app)
                                                       THEN Append(begun, <<"receive_interrupt", \hCF>>)
                                                       ELSE begun)])
     IN  /\ cpu' = r.cpu
         /\ app' = r.app
         /\ last' = [call |-> "tick", arg |-> 0, pre |-> c,
                     irq |-> IF half_frame(app) THEN Some(\hCF) ELSE last.irq]
  /\ UNCHANGED <<overflow_checks, dispatched, latched, vectors, bus, ram16k, seen>>

\* The rest of the pass from the lock of device2 (lines 129-131).
EmulatorLatch ==
  /\ ~app.panicked /\ app.at = "device2"
  /\ cpu' = set_input(set_input(cpu, 2, app.device2), 3,
                      AsU8(app.shift_register \div (2 ^ (8 - app.shift_register_offest))))
  /\ app' = [app EXCEPT !.at = "tick", !.tick = @ + 1]
  /\ UNCHANGED <<overflow_checks, dispatched, latched, vectors, last, bus, ram16k, seen>>

\* The loop is left: receive_interrupt(0xD7), the frame is drawn and stored in
\* frame_buffer, and the next frame starts with tick = 0 (lines 133-173, 62).
EndFrame ==
  /\ ~app.panicked /\ app.at = "tick" /\ app.tick = 33333
  /\ cpu' = receive_interrupt(cpu, \hD7)
  /\ app' = [app EXCEPT !.frame_buffer = @ + 1, !.tick = 0,
                        !.calls = Append(@, <<"receive_interrupt", \hD7>>)]
  /\ last' = [call |-> "receive_interrupt", arg |-> \hD7, pre |-> cpu, irq |-> Some(\hD7)]
  /\ UNCHANGED <<overflow_checks, dispatched, latched, vectors, bus, ram16k, seen>>

\* let mut device1_bits = 0b00001000; and the keys of port 1.
device1_bits(keys) ==
  8 + (IF "Space" \in keys THEN 1 ELSE 0) + (IF "Num1" \in keys THEN 4 ELSE 0)
    + (IF "Num2" \in keys THEN 2 ELSE 0) + (IF "W" \in keys THEN 16 ELSE 0)
    + (IF "A" \in keys THEN 32 ELSE 0) + (IF "D" \in keys THEN 64 ELSE 0)

device2_bits(keys) ==
  (IF "ArrowLeft" \in keys THEN 32 ELSE 0) + (IF "ArrowRight" \in keys THEN 64 ELSE 0)
    + (IF "ArrowUp" \in keys THEN 16 ELSE 0)

\* Keys found pressed by one call of update.
KeySets == {{}, {"Space", "ArrowUp"}}

\* App::update up to its store into device1 (lines 181-220), with keys pressed.
UpdateWith(keys) ==
  /\ app.update = None
  /\ app' = [app EXCEPT !.device1 = device1_bits(keys), !.update = Some(device2_bits(keys)),
                        !.keys = keys]
  /\ UNCHANGED <<cpu, overflow_checks, dispatched, latched, vectors, last, bus, ram16k, seen>>

Update == \E keys \in KeySets : UpdateWith(keys)

\* Its store into device2 (line 221).
UpdateDevice2 ==
  /\ app.update # None
  /\ app' = [app EXCEPT !.device2 = app.update[1], !.update = None]
  /\ UNCHANGED <<cpu, overflow_checks, dispatched, latched, vectors, last, bus, ram16k, seen>>

\* ------------------------------------------------------------ App::update on its own

\* The keys of the two input ports.
Keys == {"Space", "Num1", "Num2", "W", "A", "D", "ArrowLeft", "ArrowRight", "ArrowUp"}

\* Keys found pressed by one call of update: none, one, or two at once.
PressedSets == {keys \in SUBSET Keys : Cardinality(keys) <= 2}

InitKeys ==
  /\ app = App_new
  /\ cpu = Fresh
  /\ overflow_checks = FALSE
  /\ dispatched = 0
  /\ latched = 0
  /\ vectors = {}
  /\ last = Start
  /\ bus = SpaceInvadersMemory_new(ZeroCells)
  /\ ram16k = ZeroCells
  /\ seen = << >>

NextKeys ==
  \/ \E keys \in PressedSets : UpdateWith(keys)
  \/ UpdateDevice2

SpecKeys == InitKeys /\ [][NextKeys]_vars

\* ------------------------------------------------------------ programs for the driver

\* The non-zero bytes of a ROM image that starts with the bytes of code.
Rom(code) == [i \in {j \in 0 .. Len(code) - 1 : code[j + 1] # 0} |-> code[i + 1]]

\* MVI A, v1; OUT 4; MVI A, v2; OUT 4; MVI A, o; OUT 2; IN 3; HLT
ShiftProgram(v1, v2, o) ==
  <<\h3E, v1, \hD3, 4, \h3E, v2, \hD3, 4, \h3E, o, \hD3, 2, \hDB, 3, \h76>>

\* Programs in ROM: the shift device; OUT 2 before OUT 4; OUT 1 and OUT 7;
\* the sound ports and the watchdog; the input ports read in a loop.
AppRoms ==
  {Rom(ShiftProgram(\hAA, \hBB, \h03)), Rom(ShiftProgram(\hFF, \h01, \h0F)),
   Rom(ShiftProgram(\h80, \h7F, \h00)),
   Rom(<<\h3E, \h05, \hD3, 2, \h3E, \h96, \hD3, 4, \hDB, 3, \h76>>),
   Rom(<<\hD3, 1, \h76>>),
   Rom(<<\h3E, \h5A, \hD3, 7, \h76>>),
   Rom(<<\h3E, \h0F, \hD3, 3, \h3E, \h1F, \hD3, 5, \hD3, 6, \hD3, 3, \h76>>),
   Rom(<<\hDB, 0, \hDB, 1, \hDB, 2, \hC3, 0, 0>>)}

\* Passes of the while loop that are followed.
MaxPasses == 56

InitApp ==
  /\ \E rom \in AppRoms : cpu = Cpu_new(SpaceInvadersMemory_new(rom))
  /\ \E audio \in BOOLEAN : app = [App_new EXCEPT !.audio_handler = audio]
  /\ overflow_checks \in BOOLEAN
  /\ dispatched = 0
  /\ latched = 0
  /\ vectors = {}
  /\ last = Start
  /\ bus = SpaceInvadersMemory_new(ZeroCells)
  /\ ram16k = ZeroCells
  /\ seen = << >>

NextApp ==
  \/ app.tick < MaxPasses /\ EmulatorTick
  \/ EmulatorLatch
  \/ Update
  \/ UpdateDevice2

SpecApp == InitApp /\ [][NextApp]_vars

\* ------------------------------------------------------------ whole frames

\* Frames that are followed.
MaxFrames == 1

\* Passes of the frame after the last one that are followed.
MaxTail == 20

\* EI; INX B four times; JMP 0x0020, where XTHL; JMP 0x0020 loop: 34 ticks,
\* then XTHL is dispatched every 28 ticks, in pass 16666 too.  EI; RET at
\* 0x0008 and 0x0010.
SlowProgram ==
  <<\hFB, \h03, \h03, \h03, \h03, \hC3, \h20, \h00,
    \hFB, \hC9, 0, 0, 0, 0, 0, 0,
    \hFB, \hC9, 0, 0, 0, 0, 0, 0,
    0, 0, 0, 0, 0, 0, 0, 0,
    \hE3, \hC3, \h20, \h00>>

\* ROMs: all NOP; EI, HLT and the NOPs the interrupts reach; the slow loop.
FrameRoms == {ZeroCells, Rom(<<\hFB, \h76>>), Rom(SlowProgram)}

InitFrame ==
  /\ \E rom \in FrameRoms : cpu = Cpu_new(SpaceInvadersMemory_new(rom))
  /\ app = [App_new EXCEPT !.audio_handler = TRUE]
  /\ overflow_checks \in BOOLEAN
  /\ dispatched = 0
  /\ latched = 0
  /\ vectors = {}
  /\ last = Start
  /\ bus = SpaceInvadersMemory_new(ZeroCells)
  /\ ram16k = ZeroCells
  /\ seen = << >>

NextFrame ==
  /\ app.frame_buffer < MaxFrames \/ app.tick < MaxTail
  /\ EmulatorTick \/ EmulatorLatch \/ EndFrame

SpecFrame == InitFrame /\ [][NextFrame]_vars

\* ------------------------------------------------------------ the two threads and their locks

Mutexes == {"frame_buffer", "device1", "device2"}

\* A Mutex::lock that does not wait.
free_always(held, m) == TRUE

\* Mutex::lock returns once no guard of m is alive.
free(held, m) == \A thread \in DOMAIN held : m \notin held[thread]

\* m.lock().unwrap() has returned its guard to thread.
lock(held, thread, m) == [held EXCEPT ![thread] = @ \cup {m}]

\* A guard kept alive after its statement.
unlock_never(held, thread, m) == held

\* The temporary guard is dropped at the end of the statement.
unlock(held, thread, m) == [held EXCEPT ![thread] = @ \ {m}]

\* Line 127 once the output is handled; a panic in the match ends the thread.
port0(u, b) ==
  IF b.panicked THEN [cpu |-> u, app |-> b]
  ELSE [cpu |-> set_input(u, 0, 143), app |-> [b EXCEPT !.at = "device1"]]

\* Lines 68-127 with t the Cpu that c.tick() left.
drained(t, a) ==
  IF t.panicked THEN [cpu |-> t, app |-> [a EXCEPT !.panicked = TRUE]]
  ELSE port0(get_output(t).cpu,
             IF t.output = None THEN a
             ELSE match_device([a EXCEPT !.writes = Append(@, t.output[1])],
                               t.output[1][1], t.output[1][2]))

\* Lines 63-127: the pass up to the statement that locks device1.
ThreadTick ==
  /\ ~app.panicked /\ app.at = "tick" /\ app.tick < 33333
  /\ LET c == IF half_frame(app) THEN receive_interrupt(cpu, \hCF) ELSE cpu
         begun == IF app.tick = 0 THEN << >> ELSE app.calls
         r == drained(tick(c),
                      [app EXCEPT !.played = << >>,
                                  !.calls = Ticking(IF half_frame(app)
                                                    THEN Append(begun, <<"receive_interrupt", \hCF>>)
                                                    ELSE begun)])
     IN  /\ cpu' = r.cpu
         /\ app' = r.app
         /\ last' = [call |-> "tick", arg |-> 0, pre |-> c,
                     irq |-> IF half_frame(app) THEN Some(\hCF) ELSE last.irq]
  /\ UNCHANGED <<overflow_checks, dispatched, latched, vectors, bus, ram16k, seen>>

\* The lock() of lines 128, 129 and 171 returns.
ThreadLock ==
  /\ ~app.panicked /\ app.at \in Mutexes /\ app.at \notin app.held.emulator
  /\ free(app.held, app.at)
  /\ app' = [app EXCEPT !.held = lock(@, "emulator", app.at)]
  /\ UNCHANGED <<cpu, overflow_checks, dispatched, latched, vectors, last, bus, ram16k, seen>>

\* The rest of the statement under the guard: line 128; line 129, then 130 and
\* 131; line 171, then the next frame starts with tick = 0.
ThreadStore ==
  /\ ~app.panicked /\ app.at \in app.held.emulator
  /\ cpu' = CASE app.at = "device1" -> set_input(cpu, 1, app.device1)
              [] app.at = "device2" ->
                   set_input(set_input(cpu, 2, app.device2), 3,
                             AsU8(app.shift_register \div (2 ^ (8 - app.shift_register_offest))))
              [] OTHER -> cpu
  /\ app' = [app EXCEPT
               !.held = unlock(@, "emulator", app.at),
               !.at = IF app.at = "device1" THEN "device2" ELSE "tick",
               !.tick = CASE app.at = "device2" -> @ + 1
                          [] app.at = "frame_buffer" -> 0
                          [] OTHER -> @,
               !.frame_buffer = IF app.at = "frame_buffer" THEN @ + 1 ELSE @]
  /\ UNCHANGED <<overflow_checks, dispatched, latched, vectors, last, bus, ram16k, seen>>

\* The loop is left: receive_interrupt(0xD7) and the frame is drawn into rows
\* (lines 133-170).
ThreadRender ==
  /\ ~app.panicked /\ app.at = "tick" /\ app.tick = 33333
  /\ cpu' = receive_interrupt(cpu, \hD7)
  /\ app' = [app EXCEPT !.at = "frame_buffer",
                        !.calls = Append(@, <<"receive_interrupt", \hD7>>)]
  /\ last' = [call |-> "receive_interrupt", arg |-> \hD7, pre |-> cpu, irq |-> Some(\hD7)]
  /\ UNCHANGED <<overflow_checks, dispatched, latched, vectors, bus, ram16k, seen>>

\* The lock() of lines 184, 220 and 221 returns.
UiLock ==
  /\ app.ui \in Mutexes /\ app.ui \notin app.held.ui
  /\ free(app.held, app.ui)
  /\ app' = [app EXCEPT !.held = lock(@, "ui", app.ui)]
  /\ UNCHANGED <<cpu, overflow_checks, dispatched, latched, vectors, last, bus, ram16k, seen>>

\* clone() under the guard of line 184 has copied the upper half of the image.
UiClone ==
  /\ app.ui = "frame_buffer" /\ "frame_buffer" \in app.held.ui
  /\ app' = [app EXCEPT !.pixels = <<app.frame_buffer, @[2]>>, !.ui = "clone"]
  /\ UNCHANGED <<cpu, overflow_checks, dispatched, latched, vectors, last, bus, ram16k, seen>>

\* The rest of the clone and of line 184, then lines 185-219 with keys pressed.
UiInput(keys) ==
  /\ app.ui = "clone"
  /\ app' = [app EXCEPT
               !.pixels = <<@[1], app.frame_buffer>>,
               !.held = unlock(@, "ui", "frame_buffer"),
               !.close = IF "Escape" \in keys /\ @ = None THEN Some(app.frame_buffer) ELSE @,
               !.keys = keys,
               !.ui = "device1"]
  /\ UNCHANGED <<cpu, overflow_checks, dispatched, latched, vectors, last, bus, ram16k, seen>>

\* The stores of lines 220 and 221 under their guards.
UiStore ==
  /\ app.ui \in {"device1", "device2"} /\ app.ui \in app.held.ui
  /\ app' = [app EXCEPT
               !.device1 = IF app.ui = "device1" THEN device1_bits(app.keys) ELSE @,
               !.device2 = IF app.ui = "device2" THEN device2_bits(app.keys) ELSE @,
               !.held = unlock(@, "ui", app.ui),
               !.ui = IF app.ui = "device1" THEN "device2" ELSE "frame_buffer"]
  /\ UNCHANGED <<cpu, overflow_checks, dispatched, latched, vectors, last, bus, ram16k, seen>>

\* Keys found pressed by one call of update.
UiKeySets == {{}, {"A"}, {"Escape"}}

\* Passes before the end of the last frame from which update is followed.
UiWindow == 2

InitThreads ==
  /\ cpu = Cpu_new(SpaceInvadersMemory_new(ZeroCells))
  /\ app = [App_new EXCEPT !.audio_handler = TRUE]
  /\ overflow_checks = FALSE
  /\ dispatched = 0
  /\ latched = 0
  /\ vectors = {}
  /\ last = Start
  /\ bus = SpaceInvadersMemory_new(ZeroCells)
  /\ ram16k = ZeroCells
  /\ seen = << >>

\* update is called in the last passes of the last frame and after it.
UiRuns ==
  \/ app.frame_buffer = MaxFrames - 1 /\ app.tick >= 33333 - UiWindow
  \/ app.frame_buffer >= MaxFrames

NextThreads ==
  \/ /\ app.frame_buffer < MaxFrames \/ app.tick < MaxTail
     /\ ThreadTick \/ ThreadLock \/ ThreadStore \/ ThreadRender
  \/ /\ UiRuns
     /\ UiLock \/ UiClone \/ (\E keys \in UiKeySets : UiInput(keys)) \/ UiStore

SpecThreads == InitThreads /\ [][NextThreads]_vars

\* ------------------------------------------------------------ properties of the driver

\* The tick of the pass that led to the current state ran IN port / OUT port,
\* and the pass has reached the lock of device2 or ended in a panic.
RanIn(port) ==
  /\ Ticked /\ Fetches(last.pre) /\ ~cpu.panicked /\ app.at = "device2"
  /\ Opcode(last.pre) = \hDB /\ read(last.pre.memory, last.pre.pc + 1) = port

RanOut(port) ==
  /\ Ticked /\ Fetches(last.pre) /\ ~cpu.panicked
  /\ app.at = "device2" \/ app.panicked
  /\ Opcode(last.pre) = \hD3 /\ read(last.pre.memory, last.pre.pc + 1) = port

\* shift_register after the OUT 4 values of writes, applied in order from 0.
ShiftAfter(writes) ==
  LET F[n \in 0 .. Len(writes)] ==
        IF n = 0 THEN 0
        ELSE IF writes[n][1] = 4 THEN ((writes[n][2] * 256) + (F[n - 1] \div 256)) % 65536
        ELSE F[n - 1]
  IN  F[Len(writes)]

\* The low 3 bits of the last OUT 2 value of writes, 0 before the first.
OffsetAfter(writes) ==
  LET F[n \in 0 .. Len(writes)] ==
        IF n = 0 THEN 0 ELSE IF writes[n][1] = 2 THEN writes[n][2] % 8 ELSE F[n - 1]
  IN  F[Len(writes)]

\* (shift_register >> (8 - offset)) & 0xFF
ShiftResult(writes) == (ShiftAfter(writes) \div (2 ^ (8 - OffsetAfter(writes)))) % 256

ExampleWrites == <<<<4, \hAA>>, <<4, \hBB>>, <<2, \h03>>>>

\* C26: after any sequence of OUT 2 and OUT 4 serviced by the driver, IN 3
\* loads (shift_register >> (8 - offset)) & 0xFF into A, offset being the low 3
\* bits of the last OUT 2 value and shift_register the result of
\* (v << 8) | (shift_register >> 8) for each OUT 4 value v in order from 0;
\* after OUT 4 0xAA; OUT 4 0xBB; OUT 2 0x03 it loads 0xDD.
C26_In3ReadsShiftResult ==
  RanIn(3) =>
    /\ cpu.a = ShiftResult(app.writes)
    /\ app.writes = ExampleWrites => cpu.a = \hDD

\* C26 (as stated): the same, with 0x5D for the byte that IN 3 loads after
\* OUT 4 0xAA; OUT 4 0xBB; OUT 2 0x03.
C26_AsStated ==
  RanIn(3) =>
    /\ cpu.a = ShiftResult(app.writes)
    /\ app.writes = ExampleWrites => cpu.a = \h5D

\* IN 3 ran after OUT 4 0xAA; OUT 4 0xBB; OUT 2 0x03 and loaded 0xDD.
C26_Witness ==
  /\ RanIn(3) /\ app.writes = ExampleWrites
  /\ app.shift_register = \hBBAA /\ app.shift_register_offest = 3 /\ cpu.a = \hDD

\* C27 (as stated): an OUT to a port other than 2, 3, 4, 5 and 6 is ignored:
\* the emulator thread does not panic and starts no sound.
C27_UnknownPortIgnored ==
  \A port \in Byte \ {2, 3, 4, 5, 6} :
    RanOut(port) => ~app.panicked /\ app.at = "device2" /\ app.played = << >>

\* The calls one frame makes on the Cpu.
FrameCalls ==
  <<<<"tick", 16667>>, <<"receive_interrupt", \hCF>>,
    <<"tick", 16666>>, <<"receive_interrupt", \hD7>>>>

\* The frame has just been stored in frame_buffer.
Published == app.frame_buffer > 0 /\ app.tick = 0 /\ app.at = "tick"

\* C28: the calls made on the Cpu in a frame, when the frame is published, are
\* 16,667 ticks, receive_interrupt(0xCF), 16,666 ticks and
\* receive_interrupt(0xD7), in this order and no other.
C28_FrameCallsInOrder == Published => app.calls = FrameCalls

\* The first frame of the ROM EI; HLT is published: RST 1 woke the CPU at the
\* half frame and 0xD7 is latched.
C28_Witness ==
  /\ Published /\ app.frame_buffer = 1 /\ app.calls = FrameCalls
  /\ read(cpu.memory, 0) = \hFB /\ ~cpu.halted /\ cpu.interrupt_opcode = Some(\hD7)

\* C29 (as stated): whenever a tick of the driver dispatches an instruction,
\* the first one included, devices[0] is 0x8F, and IN 0 loads 0x8F into A.
C29_Port0Refreshed ==
  /\ (Ticked /\ dispatches(last.pre)) => Cell(last.pre.devices, 0) = \h8F
  /\ RanIn(0) => cpu.a = \h8F

\* C30 (as stated): once the driver has latched input port 1, devices[1] has
\* bit 3 set in every state.
C30_Port1Bit3Set ==
  (app.tick > 0 \/ app.at = "device2") => BitAnd(Cell(cpu.devices, 1), 8) = 8

\* The step is one pass of the emulator thread's loop through c.tick().
PassStep == app'.calls # app.calls /\ app.at = "tick" /\ app.tick < 33333 /\ ~half_frame(app)

\* C36: in every pass of the driver, the pair (port, A) of an OUT that the
\* tick of the pass executes is appended to the pairs the driver has received,
\* a tick that executes no OUT appends nothing, no other step changes them,
\* and the output slot is empty when the pass goes on.
C36_EachOutDeliveredOnce ==
  [][/\ PassStep =>
          /\ ~cpu'.panicked => cpu'.output = None
          /\ app'.writes =
               IF Fetches(cpu) /\ Opcode(cpu) = \hD3 /\ ~cpu'.panicked
               THEN Append(app.writes, <<read(cpu.memory, cpu.pc + 1), cpu.a>>)
               ELSE app.writes
     /\ ~PassStep => app'.writes = app.writes]_vars

\* OUT 3 with A = 0x0F and OUT 5 with A = 0x1F were received, in this order,
\* and the tick of this pass ran the OUT 5.
C36_Witness ==
  /\ RanOut(5) /\ ~app.panicked
  /\ app.writes = <<<<3, \h0F>>, <<5, \h1F>>>> /\ cpu.output = None

\* The last call on the Cpu was tick or receive_interrupt.
Called == last.call \in {"tick", "receive_interrupt"}

\* C37: with the driver's RST 1 and RST 2, the tick that consumes an
\* injected interrupt leaves interrupts disabled; a Cpu with interrupts
\* disabled gets them enabled only by a tick that fetches EI from memory; and
\* a tick that finds interrupts disabled executes no latched opcode: it
\* empties the latch, leaves a halted Cpu as it is and otherwise runs the
\* instruction at PC.
C37_NoInjectionBeforeEI ==
  vectors = DriverVectors =>
    /\ (Ticked /\ Injects(last.pre) /\ ~cpu.panicked) =>
         /\ ~cpu.interrupt_enabled
         /\ cpu.interrupt_opcode = None
         /\ cpu.pc = BitAnd(last.pre.interrupt_opcode[1], 56)
    /\ (Called /\ ~last.pre.interrupt_enabled /\ cpu.interrupt_enabled) =>
         /\ Ticked /\ Fetches(last.pre) /\ Opcode(last.pre) \in EI_op
    /\ (Ticked /\ ~last.pre.interrupt_enabled /\ last.pre.wait_cycles = 0
          /\ last.pre.interrupt_opcode # None /\ ~cpu.panicked) =>
         /\ cpu.interrupt_opcode = None
         /\ last.pre.halted => Core(cpu) = Core(last.pre) /\ cpu.halted
         /\ (~last.pre.halted /\ read(last.pre.memory, last.pre.pc) \notin TransferOps) =>
              cpu.pc = (last.pre.pc + 1 + OperandBytes(read(last.pre.memory, last.pre.pc))) % 65536

\* An RST of the driver was consumed, and: a later tick found the next one
\* latched with interrupts still disabled and dropped it.
C37_Witness ==
  /\ vectors = DriverVectors /\ Ticked /\ ~cpu.panicked
  /\ last.irq # None /\ dispatched = 2
  /\ ~last.pre.interrupt_enabled /\ last.pre.wait_cycles = 0
  /\ last.pre.interrupt_opcode # None /\ last.pre.pc \in {8, 16}
  /\ cpu.interrupt_opcode = None /\ ~cpu.interrupt_enabled

\* C38: HLT fetched with interrupts disabled leaves the Cpu halted with
\* interrupts disabled, and from a Cpu halted with interrupts disabled every
\* tick and every receive_interrupt leaves PC, the registers, SP, the flags
\* and memory as they were, halted true and interrupts disabled; a tick that
\* finds no wait cycles left drops the latched interrupt.
C38_HaltedForever ==
  /\ (Ran(HLT_op) /\ ~last.pre.interrupt_enabled) =>
       cpu.halted /\ ~cpu.interrupt_enabled
  /\ (Called /\ last.pre.halted /\ ~last.pre.interrupt_enabled) =>
       /\ Core(cpu) = Core(last.pre)
       /\ cpu.halted /\ ~cpu.interrupt_enabled /\ ~cpu.panicked
       /\ (Ticked /\ last.pre.wait_cycles = 0) => cpu.interrupt_opcode = None

\* A Cpu halted with interrupts disabled was ticked with an interrupt latched
\* and no wait cycles left.
C38_Witness ==
  /\ Ticked /\ last.pre.halted /\ ~last.pre.interrupt_enabled
  /\ last.pre.wait_cycles = 0 /\ last.pre.interrupt_opcode # None
  /\ cpu.halted /\ cpu.interrupt_opcode = None /\ cpu.pc = last.pre.pc

\* Calls of c.tick() the current frame has made.
TicksRun == app.tick + (IF app.at = "device2" THEN 1 ELSE 0)

\* The receive_interrupt calls among calls, in order.
Presented(calls) == SelectSeq(calls, LAMBDA entry : entry[1] = "receive_interrupt")

\* C39: under the frame driver wait_cycles is at most 17; 0xCF, latched
\* before tick 16668 of a frame, is latched no longer once 18 ticks have run
\* since, and so is 0xD7, latched at the end of a frame, once 18 ticks of the
\* next frame have run: the latch is empty whenever the driver latches; and
\* the driver presents 0xCF, then 0xD7 in every frame.
C39_LatchedInterruptsDoNotPile ==
  ~app.panicked =>
    /\ cpu.wait_cycles <= 17
    /\ cpu.interrupt_opcode # None =>
         \/ cpu.interrupt_opcode = Some(\hCF) /\ TicksRun - 16667 \in 1 .. 17
         \/ cpu.interrupt_opcode = Some(\hD7) /\ app.frame_buffer > 0 /\ TicksRun \in 0 .. 17
    /\ (last.call = "receive_interrupt" /\ app.tick = 0 /\ app.at = "tick") =>
         last.pre.interrupt_opcode = None
    /\ \/ Presented(app.calls) = << >> /\ (app.tick > 0 => TicksRun <= 16667)
       \/ /\ Presented(app.calls) = <<<<"receive_interrupt", \hCF>>>>
          /\ TicksRun > 16667
       \/ /\ Presented(app.calls) = <<<<"receive_interrupt", \hCF>>, <<"receive_interrupt", \hD7>>>>
          /\ app.tick = 0 /\ app.at = "tick"

\* 0xCF was latched right after XTHL was dispatched and is consumed by the
\* 18th tick since.
C39_Witness ==
  /\ Ticked /\ Injects(last.pre) /\ Opcode(last.pre) = \hCF
  /\ app.tick = 16684 /\ app.at = "device2"
  /\ cpu.pc = 8 /\ cpu.interrupt_opcode = None /\ ~cpu.interrupt_enabled

\* The bit of input port 1 / 2 that the port table gives the key's function:
\* Space P1-fire, W coin, 1 1P-start, 2 2P-start, A P1-left, D P1-right;
\* ArrowUp P2-fire, ArrowLeft P2-left, ArrowRight P2-right.
Port1Bit(key) ==
  CASE key = "Space" -> 4 [] key = "W" -> 0 [] key = "Num1" -> 2
    [] key = "Num2" -> 1 [] key = "A" -> 5 [] key = "D" -> 6

Port2Bit(key) ==
  CASE key = "ArrowUp" -> 4 [] key = "ArrowLeft" -> 5 [] key = "ArrowRight" -> 6

Port1Keys == {"Space", "W", "Num1", "Num2", "A", "D"}
Port2Keys == {"ArrowUp", "ArrowLeft", "ArrowRight"}

\* C31 (as stated): when a call of update has stored both bytes, the bits of
\* device1 other than bit 3 are those the table gives the pressed keys of
\* port 1 (Space bit 4, W bit 0, 1 bit 2, 2 bit 1, A bit 5, D bit 6), and the
\* bits of device2 those of the pressed keys of port 2 (ArrowUp bit 4,
\* ArrowLeft bit 5, ArrowRight bit 6).
C31_KeysSetTheirTableBits ==
  (app.update = None /\ app.device1 # 0) =>
    /\ {i \in 0 .. 7 : Bit(app.device1, i)} \ {3} = {Port1Bit(key) : key \in app.keys \cap Port1Keys}
    /\ {i \in 0 .. 7 : Bit(app.device2, i)} = {Port2Bit(key) : key \in app.keys \cap Port2Keys}

\* The value of the write to port before the last entry of writes, 0 if none.
PreviousWrite(writes, port) ==
  LET F[n \in 0 .. Len(writes) - 1] ==
        IF n = 0 THEN 0 ELSE IF writes[n][1] = port THEN writes[n][2] ELSE F[n - 1]
  IN  F[Len(writes) - 1]

\* Bits 0..4 that are 1 in value and 0 in previous.
Rising(value, previous) == {i \in 0 .. 4 : Bit(value, i) /\ ~Bit(previous, i)}

\* C32 (as stated): with audio available, a write to OUT 3 or OUT 5 starts
\* one sample for each bit 0..4 that is 1 in the value and was 0 in the
\* previous value written to the same port (0 before the first), and no other.
C32_SoundsOnRisingBits ==
  \A port \in {3, 5} :
    (RanOut(port) /\ app.audio_handler /\ ~app.panicked) =>
      Len(app.played) =
        Cardinality(Rising(app.writes[Len(app.writes)][2], PreviousWrite(app.writes, port)))

\* C33 (as stated): when update has stored both bytes and the tick of the
\* next pass executes IN 1 or IN 2, A holds the byte update stored for the port.
C33_WrittenInputIsRead ==
  [][(PassStep /\ Fetches(cpu) /\ Opcode(cpu) = \hDB /\ ~cpu'.panicked
        /\ app.update = None /\ app.device1 # 0) =>
       /\ read(cpu.memory, cpu.pc + 1) = 1 => cpu'.a = app.device1
       /\ read(cpu.memory, cpu.pc + 1) = 2 => cpu'.a = app.device2]_vars

\* update is between two calls: its last copy of the image is complete.
Copied == app.ui # "clone"

\* C34: the image update has copied is, in both halves, the image of one
\* frame, one that has been published (0: the image App::default made).
C34_CopyIsOneFrame ==
  Copied => app.pixels[1] = app.pixels[2] /\ app.pixels[1] \in 0 .. app.frame_buffer

\* update has copied the image of frame 1, both halves, and dropped its guard.
C34_Witness ==
  /\ app.ui = "device1" /\ app.pixels = <<1, 1>> /\ app.frame_buffer = 1
  /\ app.held.ui = {}

\* C35 (as stated): once update has asked to close, with frame f on the
\* screen, the emulator thread ends at the latest when it has published the
\* next frame: it runs no pass of the loop after that.
C35_ThreadEndsAfterClose ==
  (app.close # None /\ app.frame_buffer > app.close[1]) => TicksRun = 0 /\ app.at = "tick"

\* A thread waits for a mutex whose guard the other thread holds.
Waits(thread, at, other) == at \in Mutexes /\ at \notin app.held[thread] /\ at \in app.held[other]

\* C40: no thread holds the guards of two of the three mutexes at once; the
\* emulator thread holds none when it is about to call c.tick(); and the two
\* threads never wait for each other.
C40_OneLockAtATime ==
  /\ \A thread \in {"emulator", "ui"} : Cardinality(app.held[thread]) <= 1
  /\ app.at = "tick" => app.held.emulator = {}
  /\ ~(Waits("emulator", app.at, "ui") /\ Waits("ui", app.ui, "emulator"))

\* The emulator thread waits at line 171 for the guard update holds while it
\* copies the image.
C40_Witness ==
  /\ Waits("emulator", app.at, "ui") /\ app.at = "frame_buffer" /\ app.ui = "clone"
  /\ app.held = [emulator |-> {}, ui |-> {"frame_buffer"}]

====
